---- MODULE Spec2Model ----
(***************************************************************************)
(* Verification model of the email-manager client core:                    *)
(*   - the polling scheduler       (hooks/useAutoRefresh)                  *)
(*   - the retry coordinator       (utils/errorHandler.ts)                 *)
(*   - the alias registry          (contexts/SubEmailContext.tsx)          *)
(*   - the remote list synchronizer (contexts/EmailContext.tsx)            *)
(*   - the forwarded-item identifier (utils/emailForwardIdentifier.ts)     *)
(*   - the session manager         (contexts/AuthContext.tsx)              *)
(*                                                                         *)
(* The components are React hooks and providers.  A handler created by     *)
(* useCallback reads the state of the render that created it, and a        *)
(* setState call only enqueues an update: the new state reaches the        *)
(* handlers, and the effects that depend on it run, when React commits     *)
(* the next render.  The model therefore keeps, next to every piece of     *)
(* React state a handler reads through its closure, the value of that      *)
(* state in the last committed render, with one action for the commit.     *)
(***************************************************************************)
EXTENDS Integers, Sequences, FiniteSets, TLC

(***************************************************************************)
(* Bounds of the model                                                     *)
(***************************************************************************)
MaxInflight == 2
MaxInvocations == 3
MaxTimers == 2
MaxSaves == 1
MaxLoads == 1
MaxFetches == 2
MaxTimestamp == 2
MaxNow == 2
MaxLogins == 1
MaxAliases == 3
MaxOverlap == 2
MaxSends == 1

Min(a, b) == IF a < b THEN a ELSE b

(***************************************************************************)
(* State                                                                   *)
(***************************************************************************)
VARIABLES
  \* ---- polling scheduler (useAutoRefresh) ----
  immediate,        \* option `immediate`
  enabled,          \* option `enabled`
  mounted,          \* the owner component is mounted
  isActive,         \* useState isActive (latest enqueued value)
  isRefreshing,     \* useState isRefreshing (latest enqueued value)
  lastError,        \* useState lastError: "null" or "err"
  seenActive,       \* isActive of the last committed render (effect dependency)
  seenRefreshing,   \* isRefreshing of the last committed render (closure of `refresh`)
  timerRef,         \* timerRef.current: "null" or "set"
  timerSeen,        \* isRefreshing captured by the `refresh` the interval callback calls
  inflight,         \* number of unresolved refreshFnRef.current() calls
  invocations,      \* history: calls of the refresh action so far (saturating)
  lastStart,        \* history: what started the latest invocation
  ticked,           \* history: an interval tick has fired
  manual,           \* history: refresh() was called by the consumer
  controlled,       \* history: enable(), disable() or toggle() was called
  \* ---- retry coordinator (ErrorHandler) ----
  retryCount,       \* ErrorHandler.retryCount: context -> count (0 = no entry)
  timers,           \* pending setTimeout callbacks, each with its delay in ms
  logoutRequested,  \* clearSession() has asked the authentication port to log out
  handled,          \* history: what the latest handle() call saw and did
  redirected,       \* clearSession() has assigned window.location.href
  retryRuns,        \* history: invocations of a retry action by a backoff timer
  lastRead,         \* history: what the latest getRetryCount() call returned
  isAuthenticated,  \* AuthProvider authState.isAuthenticated
  session,          \* AuthProvider authState.session: "null" or a session
  \* ---- alias registry (SubEmailProvider) ----
  subList,          \* subEmailState.list (latest enqueued value)
  subError,         \* subEmailState.error: "null" or a message
  subLoading,       \* subEmailState.loading
  seenList,         \* subEmailState.list of the last committed render (closure of add/update/delete)
  stored,           \* the alias list held by the persistence port
  saves,            \* saveSubEmails calls awaiting the port's answer, each with its list
  loads,            \* loadSubEmails calls awaiting the port's answer
  lastSaved,        \* history: the list of the latest save the port accepted
  overlapAdds,      \* history: addresses of add() calls that were in flight together
  \* ---- remote list synchronizer (EmailProvider) ----
  emailList,        \* emailState.list
  emailLoading,     \* emailState.loading
  emailError,       \* emailState.error: "null" or a message
  fetching,         \* fetchEmails port calls awaiting the remote source
  everRead,         \* history: ids that were read in some visible list
  lastFetch,        \* history: the latest successful fetch and what followed it
  fetchResult,      \* history: how the latest settled fetchEmails() call ended
  marked,           \* history: the id of the latest markAsRead() call
  raced,            \* history: the id marked while the one fetch in flight was
                    \* awaited, and whether that fetch has been merged since
  \* ---- forwarded-item identifier ----
  lastGiven,        \* history: the alias list the latest resolved fetchEmails() was given
  classifyInput,    \* the (address, base account) pair isEmailForwarded() is applied to
  classified,       \* history: what the latest isEmailForwarded() call returned
  \* ---- session manager (AuthProvider) ----
  authLoading,      \* authState.loading
  authError,        \* authState.error: "null" or a message
  seenSession,      \* authState.session of the last committed render (closure of validateSession)
  now,              \* Date.now()
  storedSession,    \* the session held by the persistence port: "null" or a session
  storedPassword,   \* the password held by the persistence port: "null" or a password
  storedAutoLogin,  \* preferences.autoLogin held by the persistence port
  startup,          \* position of the mount effect's loadStoredSession()
  loaded,           \* loadStoredSession's locals: storedSession, preferences, savedPassword
  loginPc,          \* position of the login() call in flight: the port it awaits
  loginArgs,        \* arguments of the login() call in flight or last settled
  loginSession,     \* login's local `session`, the answer of the authentication port
  loginCalls,       \* history: the ports the latest login() call has called, in order
  loginResult,      \* history: how the latest login() call ended
  logoutPc,         \* position of the logout() call in flight
  logoutResult,     \* history: how the latest logout() call ended
  lastValidate,     \* history: what the latest validateSession() call saw and returned
  authCalls,        \* history: calls of the authentication port's login so far
  restored,         \* history: the mount effect restored the cached session
  preferencesSave   \* history: how the latest savePreferences call ended

VARIABLES
  \* ---- alias generator (useSubEmailGenerator) ----
  generatingSubEmail, \* useState generatingSubEmail (latest enqueued value)
  seenGenerating,   \* generatingSubEmail of the last committed render
  isGenerating,     \* useState isGenerating
  genError,         \* useState error: "null" or a message
  sends,            \* generateSubEmail calls awaiting the mail port's sendEmail
  statusOf,         \* history: address -> the status the hook last published for it
  \* ---- EmailList: the refresh action handed to the polling scheduler ----
  lastGate          \* history: what the latest handleRefresh() call did

schedVars == <<immediate, enabled, mounted, isActive, isRefreshing, lastError,
               seenActive, seenRefreshing, timerRef, timerSeen, inflight,
               invocations, lastStart, ticked, manual, controlled>>

retryVars == <<retryCount, timers, logoutRequested, handled, redirected, retryRuns,
               lastRead, isAuthenticated, session>>

aliasVars == <<subList, subError, subLoading, seenList, stored, saves, loads,
               lastSaved, overlapAdds>>

emailVars == <<emailList, emailLoading, emailError, fetching, everRead, lastFetch,
               fetchResult, marked, raced>>

forwardVars == <<lastGiven, classifyInput, classified>>

authVars == <<authLoading, authError, seenSession, now, storedSession, storedPassword,
              storedAutoLogin, startup, loaded, loginPc, loginArgs,
              loginSession, loginCalls, loginResult, logoutPc, logoutResult,
              lastValidate, authCalls, restored, preferencesSave>>

genVars == <<generatingSubEmail, seenGenerating, isGenerating, genError, sends,
             statusOf>>

listVars == <<lastGate>>

vars == <<schedVars, retryVars, aliasVars, emailVars, forwardVars, authVars,
          genVars, listVars>>

notSched == <<retryVars, aliasVars, emailVars, forwardVars, authVars, genVars, listVars>>
notRetry == <<schedVars, aliasVars, emailVars, forwardVars, authVars, genVars, listVars>>
notAlias == <<schedVars, retryVars, emailVars, forwardVars, authVars, genVars, listVars>>
notEmail == <<schedVars, retryVars, aliasVars, forwardVars, authVars, genVars, listVars>>
notForward == <<schedVars, retryVars, aliasVars, emailVars, authVars, genVars, listVars>>
notGen == <<schedVars, retryVars, aliasVars, emailVars, forwardVars, authVars, listVars>>
\* what the session manager never touches: isAuthenticated and session, kept
\* with the retry coordinator's variables, are its own
notAuth == <<schedVars, retryCount, timers, logoutRequested, handled, redirected,
             retryRuns, lastRead, aliasVars, emailVars, forwardVars, genVars,
             listVars>>

(***************************************************************************)
(* Polling scheduler                                                       *)
(***************************************************************************)

\* refresh(): `if (isRefreshing) return;` reads the isRefreshing of the render
\* that created the callback.
BusyGuard(seen) == seen

\* The body of refresh() up to the await, called through a closure that saw
\* isRefreshing = seen, started by `by`.
RefreshCall(seen, by) ==
  IF BusyGuard(seen)
    THEN UNCHANGED <<isRefreshing, lastError, inflight, invocations, lastStart>>
    ELSE /\ isRefreshing' = TRUE
         /\ lastError' = "null"
         /\ inflight' = inflight + 1
         /\ invocations' = Min(invocations + 1, MaxInvocations)
         /\ lastStart' = by

\* A call is modelled only while the number of unresolved invocations is bounded.
CanCall(seen) == BusyGuard(seen) \/ inflight < MaxInflight

\* State after construction: the first render is committed and the timer
\* effect has run once.
SchedInit ==
  /\ immediate \in BOOLEAN
  /\ enabled \in BOOLEAN
  /\ mounted = TRUE
  /\ isActive = enabled
  /\ seenActive = enabled
  /\ seenRefreshing = FALSE
  /\ lastError = "null"
  /\ timerRef = IF enabled THEN "set" ELSE "null"
  /\ timerSeen = FALSE
  /\ isRefreshing = (enabled /\ immediate)
  /\ inflight = IF enabled /\ immediate THEN 1 ELSE 0
  /\ invocations = IF enabled /\ immediate THEN 1 ELSE 0
  /\ lastStart = IF enabled /\ immediate THEN "effect" ELSE "none"
  /\ ticked = FALSE
  /\ manual = FALSE
  /\ controlled = FALSE

\* setInterval callback: () => { refresh(); }
Tick ==
  /\ timerRef = "set"
  /\ CanCall(timerSeen)
  /\ RefreshCall(timerSeen, "tick")
  /\ ticked' = TRUE
  /\ UNCHANGED <<immediate, enabled, mounted, isActive, seenActive, seenRefreshing,
                 timerRef, timerSeen, manual, controlled>>
  /\ UNCHANGED notSched

\* The consumer calls the refresh() returned by the last committed render.
ManualRefresh ==
  /\ mounted
  /\ CanCall(seenRefreshing)
  /\ RefreshCall(seenRefreshing, "manual")
  /\ manual' = TRUE
  /\ UNCHANGED <<immediate, enabled, mounted, isActive, seenActive, seenRefreshing,
                 timerRef, timerSeen, ticked, controlled>>
  /\ UNCHANGED notSched

\* RefreshResolved without the `finally` block: the busy flag stays set.
RefreshResolvedKeepsBusy ==
  /\ inflight > 0
  /\ inflight' = inflight - 1
  /\ UNCHANGED <<immediate, enabled, mounted, isActive, isRefreshing, lastError,
                 seenActive, seenRefreshing, timerRef, timerSeen, invocations,
                 lastStart, ticked, manual, controlled>>
  /\ UNCHANGED notSched

\* refreshFnRef.current() resolves: finally { setIsRefreshing(false) }
RefreshResolved ==
  /\ inflight > 0
  /\ inflight' = inflight - 1
  /\ isRefreshing' = IF mounted THEN FALSE ELSE isRefreshing
  /\ UNCHANGED <<immediate, enabled, mounted, isActive, lastError, seenActive,
                 seenRefreshing, timerRef, timerSeen, invocations, lastStart,
                 ticked, manual, controlled>>
  /\ UNCHANGED notSched

\* RefreshRejected with the `finally` block lost: the busy flag stays set.
RefreshRejectedKeepsBusy ==
  /\ inflight > 0
  /\ inflight' = inflight - 1
  /\ lastError' = IF mounted THEN "err" ELSE lastError
  /\ UNCHANGED <<immediate, enabled, mounted, isActive, isRefreshing, seenActive,
                 seenRefreshing, timerRef, timerSeen, invocations, lastStart,
                 ticked, manual, controlled>>
  /\ UNCHANGED notSched

\* refreshFnRef.current() throws: catch { setLastError(err) } finally
\* { setIsRefreshing(false) }
RefreshRejected ==
  /\ inflight > 0
  /\ inflight' = inflight - 1
  /\ lastError' = IF mounted THEN "err" ELSE lastError
  /\ isRefreshing' = IF mounted THEN FALSE ELSE isRefreshing
  /\ UNCHANGED <<immediate, enabled, mounted, isActive, seenActive,
                 seenRefreshing, timerRef, timerSeen, invocations, lastStart,
                 ticked, manual, controlled>>
  /\ UNCHANGED notSched

\* What enable(), disable() and toggle() leave alone.
ControlFrame ==
  UNCHANGED <<immediate, enabled, mounted, isRefreshing, lastError, seenActive,
              seenRefreshing, timerRef, timerSeen, inflight, invocations,
              lastStart, ticked, manual>>

\* enable(): setIsActive(true)
Enable ==
  /\ mounted
  /\ isActive' = TRUE
  /\ controlled' = TRUE
  /\ ControlFrame
  /\ UNCHANGED notSched

\* disable(): setIsActive(false)
Disable ==
  /\ mounted
  /\ isActive' = FALSE
  /\ controlled' = TRUE
  /\ ControlFrame
  /\ UNCHANGED notSched

\* toggle(): setIsActive(prev => !prev)
Toggle ==
  /\ mounted
  /\ isActive' = ~isActive
  /\ controlled' = TRUE
  /\ ControlFrame
  /\ UNCHANGED notSched

\* The timer effect, run by a commit whose dependencies (isActive, refresh)
\* changed: the previous run's cleanup, then the effect body.
TimerEffect ==
  IF ~isActive
    THEN /\ timerRef' = "null"
         /\ timerSeen' = timerSeen
         /\ UNCHANGED <<isRefreshing, lastError, inflight, invocations, lastStart>>
    ELSE /\ IF immediate
              THEN RefreshCall(isRefreshing, "effect")
              ELSE UNCHANGED <<isRefreshing, lastError, inflight, invocations, lastStart>>
         /\ timerRef' = "set"
         /\ timerSeen' = isRefreshing

\* React commits the pending state: handlers are re-created over it and the
\* timer effect re-runs when isActive or refresh (that is, isRefreshing) changed.
Render ==
  /\ mounted
  /\ <<isActive, isRefreshing>> # <<seenActive, seenRefreshing>>
  /\ (isActive /\ immediate) => CanCall(isRefreshing)
  /\ seenActive' = isActive
  /\ seenRefreshing' = isRefreshing
  /\ TimerEffect
  /\ UNCHANGED <<immediate, enabled, mounted, isActive, ticked, manual, controlled>>
  /\ UNCHANGED notSched

\* The owner unmounts: the effect's cleanup clears the interval.
Unmount ==
  /\ mounted
  /\ mounted' = FALSE
  /\ timerRef' = "null"
  /\ UNCHANGED <<immediate, enabled, isActive, isRefreshing, lastError, seenActive,
                 seenRefreshing, timerSeen, inflight, invocations, lastStart,
                 ticked, manual, controlled>>
  /\ UNCHANGED notSched

SchedNext ==
  \/ Tick
  \/ ManualRefresh
  \/ RefreshResolved
  \/ RefreshRejected
  \/ Enable
  \/ Disable
  \/ Toggle
  \/ Render
  \/ Unmount

\* The scheduler of a consumer that never disables it and stays mounted.
SchedLiveNext ==
  \/ Tick
  \/ ManualRefresh
  \/ RefreshResolved
  \/ RefreshRejected
  \/ Render

\* The refresh action settles, either way.
RefreshSettles == RefreshResolved \/ RefreshRejected

(***************************************************************************)
(* Retry coordinator: error classification and recovery policy             *)
(***************************************************************************)

\* A failure message is a sequence of characters.
LowerChar(c) ==
  CASE c = "A" -> "a"
    [] c = "B" -> "b"
    [] c = "C" -> "c"
    [] c = "D" -> "d"
    [] c = "E" -> "e"
    [] c = "F" -> "f"
    [] c = "G" -> "g"
    [] c = "H" -> "h"
    [] c = "I" -> "i"
    [] c = "J" -> "j"
    [] c = "K" -> "k"
    [] c = "L" -> "l"
    [] c = "M" -> "m"
    [] c = "N" -> "n"
    [] c = "O" -> "o"
    [] c = "P" -> "p"
    [] c = "Q" -> "q"
    [] c = "R" -> "r"
    [] c = "S" -> "s"
    [] c = "T" -> "t"
    [] c = "U" -> "u"
    [] c = "V" -> "v"
    [] c = "W" -> "w"
    [] c = "X" -> "x"
    [] c = "Y" -> "y"
    [] c = "Z" -> "z"
    [] OTHER -> c

\* String.prototype.toLowerCase
toLowerCase(msg) == [i \in DOMAIN msg |-> LowerChar(msg[i])]

\* String.prototype.includes: kw occurs in msg as a contiguous substring.
includes(msg, kw) ==
  \E i \in 1..(Len(msg) - Len(kw) + 1) : SubSeq(msg, i, i + Len(kw) - 1) = kw

NetworkKeywords ==
  { <<"n","e","t","w","o","r","k">>,
    <<"t","i","m","e","o","u","t">>,
    <<"c","o","n","n","e","c","t","i","o","n">>,
    <<"d","n","s">>,
    <<"f","e","t","c","h">> }

AuthKeywords ==
  { <<"a","u","t","h">>,
    <<"l","o","g","i","n">>,
    <<"c","r","e","d","e","n","t","i","a","l">>,
    <<"t","o","k","e","n">>,
    <<"s","e","s","s","i","o","n">>,
    <<"u","n","a","u","t","h","o","r","i","z","e","d">>,
    <<"4","0","1">> }

ServerKeywords ==
  { <<"s","e","r","v","e","r">>,
    <<"i","m","a","p">>,
    <<"s","m","t","p">>,
    <<"5","0","0">>,
    <<"5","0","3">> }

ValidationKeywords ==
  { <<"v","a","l","i","d","a","t","i","o","n">>,
    <<"i","n","v","a","l","i","d">>,
    <<"f","o","r","m","a","t">>,
    <<"p","a","r","s","e">> }

StorageKeywords ==
  { <<"s","t","o","r","a","g","e">>,
    <<"d","i","s","k">>,
    <<"p","e","r","m","i","s","s","i","o","n">>,
    <<"q","u","o","t","a">> }

IncludesAny(msg, group) == \E kw \in group : includes(msg, kw)

\* A classification that tests the auth group before the network group.
classifyAuthFirst(error) ==
  LET message == toLowerCase(error) IN
  IF IncludesAny(message, AuthKeywords) THEN "auth"
  ELSE IF IncludesAny(message, NetworkKeywords) THEN "network"
  ELSE IF IncludesAny(message, ServerKeywords) THEN "server"
  ELSE IF IncludesAny(message, ValidationKeywords) THEN "validation"
  ELSE IF IncludesAny(message, StorageKeywords) THEN "storage"
  ELSE "unknown"

\* ErrorHandler.classifyError: the first group, in this order, with a keyword
\* in the lower-cased message.
classifyError(error) ==
  LET message == toLowerCase(error) IN
  IF IncludesAny(message, NetworkKeywords) THEN "network"
  ELSE IF IncludesAny(message, AuthKeywords) THEN "auth"
  ELSE IF IncludesAny(message, ServerKeywords) THEN "server"
  ELSE IF IncludesAny(message, ValidationKeywords) THEN "validation"
  ELSE IF IncludesAny(message, StorageKeywords) THEN "storage"
  ELSE "unknown"

\* ErrorHandler.getRecoveryStrategy: no strategy carries a fallbackAction.
getRecoveryStrategy(errorType) ==
  CASE errorType = "network" ->
         [shouldRetry |-> TRUE,  maxRetries |-> 3, retryDelay |-> 1000,
          fallbackAction |-> "undefined"]
    [] errorType = "server" ->
         [shouldRetry |-> TRUE,  maxRetries |-> 3, retryDelay |-> 2000,
          fallbackAction |-> "undefined"]
    [] errorType = "auth" ->
         [shouldRetry |-> FALSE, maxRetries |-> 0, retryDelay |-> 0,
          fallbackAction |-> "undefined"]
    [] errorType = "validation" ->
         [shouldRetry |-> FALSE, maxRetries |-> 0, retryDelay |-> 0,
          fallbackAction |-> "undefined"]
    [] errorType = "storage" ->
         [shouldRetry |-> TRUE,  maxRetries |-> 2, retryDelay |-> 500,
          fallbackAction |-> "undefined"]
    [] OTHER ->
         [shouldRetry |-> FALSE, maxRetries |-> 0, retryDelay |-> 0,
          fallbackAction |-> "undefined"]

\* The failure messages and context labels handle() is called with.
Words ==
  { <<"N","e","t","w","o","r","k">>,
    <<"t","i","m","e","o","u","t">>,
    <<"A","U","T","H">>,
    <<"U","n","a","u","t","h","o","r","i","z","e","d">>,
    <<"I","M","A","P">>,
    <<"5","0","3">>,
    <<"i","n","v","a","l","i","d">>,
    <<"d","i","s","k">>,
    <<"Q","u","o","t","a">>,
    <<"o","o","p","s">> }

Space == <<" ">>

Messages == Words \cup { w \o Space \o <<"t","i","m","e","o","u","t">> : w \in Words }

Contexts == {"fetchEmails", "login"}

Kinds == {"network", "auth", "server", "validation", "storage", "unknown"}

\* The classification of every message of the model, computed once.
KindOf == [m \in Messages |-> classifyError(m)]

NoHandle == [context |-> "none", error |-> <<>>, kind |-> "none", before |-> 0,
             after |-> 0, scheduled |-> FALSE, delay |-> 0, logged |-> TRUE,
             threw |-> FALSE]

NoRead == [context |-> "none", value |-> 0]

\* AuthProvider: useState({ isAuthenticated: false, session: null, ... })
AuthInit ==
  /\ isAuthenticated = FALSE
  /\ session = "null"

RetryInit ==
  /\ retryCount = [c \in Contexts |-> 0]
  /\ timers = <<>>
  /\ logoutRequested = FALSE
  /\ handled = NoHandle
  /\ redirected = FALSE
  /\ retryRuns = 0
  /\ lastRead = NoRead
  /\ AuthInit

\* A logError that lets the port's rejection through.
logErrorRethrows(portOk) == IF portOk THEN "resolved" ELSE "rejected"

\* ErrorHandler.logError: try { await logCommands.logError(logEntry) } catch
\* { console.error(...) }: the promise resolves whatever the port answers.
logError(portOk) == IF portOk THEN "resolved" ELSE "resolved"

\* A linear backoff in place of the exponential one.
LinearBackoffDelay(retryDelay, retries) == retryDelay * (retries + 1)

\* strategy.retryDelay * Math.pow(2, retries)
BackoffDelay(retryDelay, retries) == retryDelay * (2 ^ retries)

\* The shared body of handleNetworkError and handleServerError: retry with
\* backoff while the count is below maxRetries, else drop the count.  The
\* timer's callback closes over the strategy.
RetryWithBackoff(errorType, context) ==
  LET strategy == getRecoveryStrategy(errorType)
      retries == retryCount[context]
  IN IF strategy.shouldRetry
       THEN IF retries < strategy.maxRetries
              THEN /\ Len(timers) < MaxTimers
                   /\ retryCount' = [retryCount EXCEPT ![context] = retries + 1]
                   /\ timers' = Append(timers,
                                  [delay |-> BackoffDelay(strategy.retryDelay, retries),
                                   fallbackAction |-> strategy.fallbackAction])
              ELSE /\ retryCount' = [retryCount EXCEPT ![context] = 0]
                   /\ timers' = timers
       ELSE UNCHANGED <<retryCount, timers>>

\* ErrorHandler.clearSession: the authentication port is asked to log out
\* (after a dynamic import, its answer is not awaited) and
\* window.location.href is assigned.  The AuthProvider's state is not touched.
clearSession ==
  /\ logoutRequested' = TRUE
  /\ redirected' = TRUE

\* ErrorHandler.handleNetworkError
handleNetworkError(context) ==
  RetryWithBackoff("network", context) /\ UNCHANGED <<logoutRequested, redirected>>

\* ErrorHandler.handleServerError
handleServerError(context) ==
  RetryWithBackoff("server", context) /\ UNCHANGED <<logoutRequested, redirected>>

\* ErrorHandler.handleAuthError: clearSession()
handleAuthError(context) ==
  clearSession /\ UNCHANGED <<retryCount, timers>>

\* ErrorHandler.handleValidationError: console output only
handleValidationError(context) ==
  UNCHANGED <<retryCount, timers, logoutRequested, redirected>>

\* ErrorHandler.handleStorageError: console output only
handleStorageError(context) ==
  UNCHANGED <<retryCount, timers, logoutRequested, redirected>>

\* ErrorHandler.handleUnknownError: console output only
handleUnknownError(context) ==
  UNCHANGED <<retryCount, timers, logoutRequested, redirected>>

\* ErrorHandler.handle(error, context): await logError, classify, dispatch on
\* the kind.  portOk is the logging port's answer; a logError that rejected
\* would end handle() before the classification.
Handle(error, context, portOk) ==
  LET errorType == KindOf[error] IN
  /\ IF logError(portOk) = "rejected"
       THEN /\ UNCHANGED <<retryCount, timers, logoutRequested, redirected>>
            /\ handled' = [context |-> context, error |-> error, kind |-> "none",
                           before |-> retryCount[context],
                           after |-> retryCount[context],
                           scheduled |-> FALSE, delay |-> 0, logged |-> portOk,
                           threw |-> TRUE]
       ELSE /\ CASE errorType = "network"    -> handleNetworkError(context)
                 [] errorType = "auth"       -> handleAuthError(context)
                 [] errorType = "server"     -> handleServerError(context)
                 [] errorType = "validation" -> handleValidationError(context)
                 [] errorType = "storage"    -> handleStorageError(context)
                 [] OTHER                    -> handleUnknownError(context)
            /\ handled' = [context |-> context, error |-> error, kind |-> errorType,
                           before |-> retryCount[context],
                           after |-> retryCount'[context],
                           scheduled |-> Len(timers') > Len(timers),
                           delay |-> IF Len(timers') > Len(timers)
                                       THEN timers'[Len(timers')].delay ELSE 0,
                           logged |-> portOk, threw |-> FALSE]
  /\ UNCHANGED <<retryRuns, lastRead, isAuthenticated, session>>
  /\ UNCHANGED notRetry

\* handle() is called and the logging port accepts the record.
HandleFailure ==
  \E error \in Messages, context \in Contexts : Handle(error, context, TRUE)

\* handle() is called and the logging port rejects the record.
HandleFailureUnlogged ==
  \E error \in Messages, context \in Contexts : Handle(error, context, FALSE)

\* One message of a retried kind for each retrying handler, and one of a kind
\* that is not retried.
CountedMessages ==
  { <<"N","e","t","w","o","r","k">>, <<"I","M","A","P">>, <<"i","n","v","a","l","i","d">> }

\* handle() is called with one of the counted messages.
HandleCounted ==
  \E error \in CountedMessages, context \in Contexts : Handle(error, context, TRUE)

\* A backoff timer fires: () => { strategy.fallbackAction?.() }
TimerFire ==
  \E i \in 1..Len(timers) :
    /\ timers' = SubSeq(timers, 1, i - 1) \o SubSeq(timers, i + 1, Len(timers))
    /\ retryRuns' = IF timers[i].fallbackAction = "undefined"
                      THEN retryRuns ELSE retryRuns + 1
    /\ UNCHANGED <<retryCount, logoutRequested, handled, redirected, lastRead,
                   isAuthenticated, session>>
    /\ UNCHANGED notRetry

\* A resetRetryCount that clears the whole map.
resetEveryRetryCount(context) ==
  /\ retryCount' = [c \in Contexts |-> 0]
  /\ UNCHANGED <<timers, logoutRequested, handled, redirected, retryRuns, lastRead,
                 isAuthenticated, session>>
  /\ UNCHANGED notRetry

\* ErrorHandler.resetRetryCount: this.retryCount.delete(context)
resetRetryCount(context) ==
  /\ retryCount' = [retryCount EXCEPT ![context] = 0]
  /\ UNCHANGED <<timers, logoutRequested, handled, redirected, retryRuns, lastRead,
                 isAuthenticated, session>>
  /\ UNCHANGED notRetry

ResetRetryCount == \E context \in Contexts : resetRetryCount(context)

\* ErrorHandler.getRetryCount: this.retryCount.get(context) || 0
getRetryCount(context) == retryCount[context]

\* A caller reads getRetryCount(context).
ReadRetryCount(context) ==
  /\ lastRead' = [context |-> context, value |-> getRetryCount(context)]
  /\ UNCHANGED <<retryCount, timers, logoutRequested, handled, redirected,
                 retryRuns, isAuthenticated, session>>
  /\ UNCHANGED notRetry

GetRetryCount == \E context \in Contexts : ReadRetryCount(context)

\* AuthProvider.login, once its port calls have resolved:
\* setAuthState({ isAuthenticated: true, session, ... })
LoginSucceeds ==
  /\ ~isAuthenticated
  /\ isAuthenticated' = TRUE
  /\ session' = "session"
  /\ UNCHANGED <<retryCount, timers, logoutRequested, handled, redirected,
                 retryRuns, lastRead>>
  /\ UNCHANGED notRetry

\* AuthProvider.logout, once the port has answered either way:
\* setAuthState({ isAuthenticated: false, session: null, ... })
Logout ==
  /\ isAuthenticated
  /\ isAuthenticated' = FALSE
  /\ session' = "null"
  /\ UNCHANGED <<retryCount, timers, logoutRequested, handled, redirected,
                 retryRuns, lastRead>>
  /\ UNCHANGED notRetry

RetryNext ==
  \/ HandleFailure
  \/ TimerFire
  \/ ResetRetryCount

\* The retry coordinator while the logging port is failing.
RetryLogNext ==
  \/ HandleFailureUnlogged
  \/ TimerFire

\* The retry coordinator with a caller that reads the counts.
RetryReadNext ==
  \/ HandleCounted
  \/ TimerFire
  \/ ResetRetryCount
  \/ GetRetryCount

\* The retry coordinator next to the session manager.
\* handle() is called by a component that is still mounted.
OwnerHandles == mounted /\ HandleCounted

\* The retry coordinator with a caller that is torn down: the coordinator is
\* a static class, it has no teardown of its own.
RetryTeardownNext ==
  \/ OwnerHandles
  \/ TimerFire
  \/ Unmount

RetryAuthNext ==
  \/ HandleFailure
  \/ LoginSucceeds
  \/ Logout

(***************************************************************************)
(* Alias registry                                                          *)
(***************************************************************************)

\* Two addresses that differ only in case.
Addresses == {"userXYZ@2925.com", "userxyz@2925.com"}

Statuses == {"creating", "active", "failed"}

SubEmails == [address : Addresses, status : Statuses]

\* Partial<SubEmail>: "-" stands for a field the partial does not carry.
\* The partials update() is called with: the creation workflow's success.
StatusPartials == { [address |-> "-", status |-> st] : st \in {"active"} }

\* { ...subEmail, ...updates }
Merge(subEmail, updates) ==
  [address |-> IF updates.address = "-" THEN subEmail.address ELSE updates.address,
   status  |-> IF updates.status = "-" THEN subEmail.status ELSE updates.status]

\* list.some(se => se.address === address)
SomeAddress(list, address) == \E i \in DOMAIN list : list[i].address = address

\* list.findIndex(se => se.address === address); 0 stands for -1
FindIndex(list, address) ==
  IF SomeAddress(list, address)
    THEN CHOOSE i \in DOMAIN list :
           /\ list[i].address = address
           /\ \A j \in 1..(i - 1) : list[j].address # address
    ELSE 0

\* list.filter(se => se.address !== address)
RECURSIVE FilterOut(_, _)
FilterOut(list, address) ==
  IF list = <<>> THEN <<>>
  ELSE IF Head(list).address = address
         THEN FilterOut(Tail(list), address)
         ELSE <<Head(list)>> \o FilterOut(Tail(list), address)

RemoveAt(seq, i) == SubSeq(seq, 1, i - 1) \o SubSeq(seq, i + 1, Len(seq))

\* The lists the persistence port may hold when the provider is mounted.
StoredAtStart ==
  { <<>>, <<[address |-> "userXYZ@2925.com", status |-> "active"]>> }

\* State after construction: the list is empty, loading, and the mount
\* effect's loadFromStorage() is awaiting the port.
NoSaved == [done |-> FALSE, list |-> <<>>]

AliasInit ==
  /\ lastSaved = NoSaved
  /\ overlapAdds = {}
  /\ subList = <<>>
  /\ subError = "null"
  /\ subLoading = TRUE
  /\ seenList = <<>>
  /\ stored \in StoredAtStart
  /\ saves = <<>>
  /\ loads = 1

AliasIdle == AliasInit /\ stored = <<>>

\* The provider after the mount effect's load has returned an empty list.
AliasMounted ==
  /\ lastSaved = NoSaved
  /\ overlapAdds = {}
  /\ subList = <<>>
  /\ subError = "null"
  /\ subLoading = FALSE
  /\ seenList = <<>>
  /\ stored = <<>>
  /\ saves = <<>>
  /\ loads = 0

\* An operation throws before any port call: catch { error: message }; throw
Refuse(message) ==
  /\ subError' = message
  /\ UNCHANGED <<subList, subLoading, seenList, stored, saves, loads, lastSaved>>

\* `await saveToStorage(updatedList)` is reached: the port is called.
StartSaveWithin(updatedList, limit) ==
  /\ Len(saves) < limit
  /\ Len(updatedList) <= MaxAliases
  /\ saves' = Append(saves, updatedList)
  /\ UNCHANGED <<subList, subError, subLoading, seenList, stored, loads, lastSaved>>

StartSave(updatedList) == StartSaveWithin(updatedList, MaxSaves)

\* The addresses the saves in flight were started to add.
AddressesInFlight ==
  { saves[i][Len(saves[i])].address : i \in { j \in DOMAIN saves : saves[j] # <<>> } }

\* The duplicate check of addSubEmail, on the list the callback closes over.
AddExists(list, subEmail) == SomeAddress(list, subEmail.address)

\* addSubEmail(subEmail), up to the await
AddSubEmailWithin(subEmail, limit) ==
  /\ IF AddExists(seenList, subEmail)
       THEN Refuse("exists") /\ UNCHANGED overlapAdds
       ELSE /\ StartSaveWithin(Append(seenList, subEmail), limit)
            /\ overlapAdds' =
                 IF saves = <<>> \/ subEmail.address \in AddressesInFlight
                   THEN overlapAdds
                   ELSE overlapAdds \cup AddressesInFlight \cup {subEmail.address}
  /\ UNCHANGED notAlias

AddSubEmail(subEmail) == AddSubEmailWithin(subEmail, MaxSaves)

\* updateSubEmail(address, updates), up to the await
UpdateSubEmail(address, updates) ==
  /\ LET index == FindIndex(seenList, address) IN
     IF index = 0
       THEN Refuse("missing")
       ELSE StartSave(
                      [seenList EXCEPT ![index] = Merge(seenList[index], updates)])
  /\ UNCHANGED overlapAdds
  /\ UNCHANGED notAlias

\* deleteSubEmail(address), up to the await
DeleteSubEmailWithin(address, limit) ==
  /\ LET index == FindIndex(seenList, address) IN
     IF index = 0
       THEN Refuse("missing")
       ELSE StartSaveWithin(FilterOut(seenList, address), limit)
  /\ UNCHANGED overlapAdds
  /\ UNCHANGED notAlias

DeleteSubEmail(address) == DeleteSubEmailWithin(address, MaxSaves)

\* The aliases add() is called with: freshly created ones.
NewSubEmails == [address : Addresses, status : {"creating"}]

AddCall == \E subEmail \in NewSubEmails : AddSubEmail(subEmail)
UpdateCall ==
  \E address \in Addresses, updates \in StatusPartials : UpdateSubEmail(address, updates)
DeleteCall == \E address \in Addresses : DeleteSubEmail(address)

\* Partials that carry another address: update() takes any Partial<SubEmail>.
AddressPartials == { [address |-> a, status |-> "-"] : a \in Addresses }

RenameCall ==
  \E address \in Addresses, updates \in AddressPartials :
    UpdateSubEmail(address, updates)

\* What a save that the port rejected does to the list.
SaveFailedWipes(list) == <<>>

\* What a save that the port rejected does to the list: nothing
\* (catch: setSubEmailState(prev => ({ ...prev, error }))).
SaveFailedList(list) == list

\* saveSubEmails resolves: the port holds the list, then
\* setSubEmailState(prev => ({ ...prev, list: updatedList, error: null }))
SaveSucceeds ==
  \E i \in DOMAIN saves :
    /\ stored' = saves[i]
    /\ subList' = saves[i]
    /\ subError' = "null"
    /\ saves' = RemoveAt(saves, i)
    /\ lastSaved' = [done |-> TRUE, list |-> saves[i]]
    /\ UNCHANGED <<subLoading, seenList, loads, overlapAdds>>
    /\ UNCHANGED notAlias

\* saveSubEmails rejects: saveToStorage rethrows, the operation's catch
\* records the message and rethrows.
SaveFails ==
  \E i \in DOMAIN saves :
    /\ subList' = SaveFailedList(subList)
    /\ subError' = "save failed"
    /\ saves' = RemoveAt(saves, i)
    /\ UNCHANGED <<subLoading, seenList, stored, loads, lastSaved, overlapAdds>>
    /\ UNCHANGED notAlias

\* refreshSubEmails(), up to the await
RefreshSubEmails ==
  /\ loads < MaxLoads
  /\ loads' = loads + 1
  /\ subLoading' = TRUE
  /\ subError' = "null"
  /\ UNCHANGED <<subList, seenList, stored, saves, lastSaved, overlapAdds>>
  /\ UNCHANGED notAlias

\* loadFromStorage() returns what the port holds, or [] when the port fails;
\* the caller replaces the state: { list, loading: false, error: null }
LoadSettles ==
  /\ loads > 0
  /\ loads' = loads - 1
  /\ \E ok \in BOOLEAN : subList' = IF ok THEN stored ELSE <<>>
  /\ subLoading' = FALSE
  /\ subError' = "null"
  /\ UNCHANGED <<seenList, stored, saves, lastSaved, overlapAdds>>
  /\ UNCHANGED notAlias

\* React commits the pending list: the callbacks are re-created over it.
AliasRender ==
  /\ seenList # subList
  /\ seenList' = subList
  /\ UNCHANGED <<subList, subError, subLoading, stored, saves, loads, lastSaved,
                 overlapAdds>>
  /\ UNCHANGED notAlias

\* The registry's operations on a mounted provider; refreshSubEmails() is
\* left to AliasLoadNext.
AliasNext ==
  \/ AddCall
  \/ UpdateCall
  \/ DeleteCall
  \/ SaveSucceeds
  \/ SaveFails
  \/ LoadSettles
  \/ AliasRender

\* saveAllData(), every 30 seconds and before unload: the list of the last
\* committed render is written to the port, whatever it holds.
SaveAllData ==
  /\ stored # seenList
  /\ stored' = seenList
  /\ lastSaved' = [done |-> TRUE, list |-> seenList]
  /\ UNCHANGED <<subList, subError, subLoading, seenList, saves, loads, overlapAdds>>
  /\ UNCHANGED notAlias

AliasLoadNext ==
  \/ AliasNext
  \/ RefreshSubEmails
  \/ SaveAllData

\* Calls issued while an earlier save is still awaiting the port.
AddOverlapCall ==
  \E subEmail \in NewSubEmails : AddSubEmailWithin(subEmail, MaxOverlap)
DeleteOverlapCall ==
  \E address \in Addresses : DeleteSubEmailWithin(address, MaxOverlap)

\* Overlapping add() calls on a port that accepts every save.
AliasOverlapNext ==
  \/ AddOverlapCall
  \/ SaveSucceeds
  \/ AliasRender

\* Overlapping add() and delete() calls, update() calls, saves that fail.
AliasConcurrentNext ==
  \/ AddOverlapCall
  \/ DeleteOverlapCall
  \/ UpdateCall
  \/ SaveSucceeds
  \/ SaveFails
  \/ LoadSettles
  \/ AliasRender

\* The registry with a consumer that also changes addresses through update().
AliasRenameNext ==
  \/ AddCall
  \/ RenameCall
  \/ DeleteCall
  \/ SaveSucceeds
  \/ LoadSettles
  \/ AliasRender

(***************************************************************************)
(* Remote list synchronizer                                                *)
(***************************************************************************)

EmailIds == {"m1", "m2"}

Timestamps == 1..MaxTimestamp

Emails == [id : EmailIds, timestamp : Timestamps, isRead : BOOLEAN]

\* What the remote source may answer: any list of items with distinct ids.
RemoteLists ==
  {<<>>} \cup { <<e>> : e \in Emails }
         \cup { p \in { <<e1, e2>> : e1 \in Emails, e2 \in Emails } : p[1].id # p[2].id }

\* One step of a stable sort by (a, b) => b.timestamp - a.timestamp: e goes
\* before the first item with a smaller timestamp.
RECURSIVE InsertByTimestamp(_, _)
InsertByTimestamp(e, sorted) ==
  IF sorted = <<>> THEN <<e>>
  ELSE IF Head(sorted).timestamp < e.timestamp
         THEN <<e>> \o sorted
         ELSE <<Head(sorted)>> \o InsertByTimestamp(e, Tail(sorted))

\* A sort that leaves the fetched order as it is.
SortKeepsOrder(emails) == emails

\* emails.sort((a, b) => b.timestamp - a.timestamp)
RECURSIVE SortByTimestampDesc(_)
SortByTimestampDesc(emails) ==
  IF emails = <<>> THEN <<>>
  ELSE InsertByTimestamp(emails[Len(emails)],
                         SortByTimestampDesc(SubSeq(emails, 1, Len(emails) - 1)))

\* new Set(prev.list.filter(email => email.isRead).map(email => email.id))
ReadEmailIds(list) == { list[i].id : i \in { j \in DOMAIN list : list[j].isRead } }

\* The merge that takes the fetched read flags as they are.
MergeTakesRemote(prevList, emails) == emails

\* A merge that clears the flag of the ids that were read locally.
MergeInvertsRead(prevList, emails) ==
  [i \in DOMAIN emails |->
     [emails[i] EXCEPT !.isRead = IF emails[i].id \in ReadEmailIds(prevList)
                                    THEN FALSE ELSE emails[i].isRead]]

\* emails.map(email => ({ ...email, isRead: readEmailIds.has(email.id) ? true
\* : email.isRead }))
MergeReadState(prevList, emails) ==
  [i \in DOMAIN emails |->
     [emails[i] EXCEPT !.isRead = IF emails[i].id \in ReadEmailIds(prevList)
                                    THEN TRUE ELSE emails[i].isRead]]

\* A markAsRead that flips the flag.
markAsReadToggles(list, emailId) ==
  [i \in DOMAIN list |->
     IF list[i].id = emailId
       THEN [list[i] EXCEPT !.isRead = ~list[i].isRead]
       ELSE list[i]]

\* prev.list.map(email => email.id === emailId ? { ...email, isRead: true }
\* : email)
markAsReadList(list, emailId) ==
  [i \in DOMAIN list |->
     IF list[i].id = emailId
       THEN [list[i] EXCEPT !.isRead = TRUE]
       ELSE list[i]]

NoFetch == [done |-> FALSE, remote |-> <<>>, clean |-> FALSE, repeated |-> FALSE]

NoRace == [id |-> "none", done |-> FALSE]

EmailInit ==
  /\ emailList = <<>>
  /\ emailLoading = FALSE
  /\ emailError = "null"
  /\ fetching = 0
  /\ everRead = {}
  /\ lastFetch = NoFetch
  /\ fetchResult = "none"
  /\ marked = "none"
  /\ raced = NoRace

\* The history of read ids follows every new visible list.
NoteRead == everRead' = everRead \cup ReadEmailIds(emailList')

\* fetchEmails(), up to the await: loading, error cleared, port called.
FetchEmails ==
  /\ fetching < MaxFetches
  /\ fetching' = fetching + 1
  /\ emailLoading' = TRUE
  /\ emailError' = "null"
  /\ raced' = NoRace
  /\ UNCHANGED <<emailList, everRead, lastFetch, fetchResult, marked>>
  /\ UNCHANGED notEmail

\* The port answers: sort, merge with the local read state, replace the list;
\* the promise of fetchEmails() resolves.
FetchSucceeds ==
  /\ fetching > 0
  /\ fetching' = fetching - 1
  /\ \E emails \in RemoteLists :
       /\ emailList' = MergeReadState(emailList, SortByTimestampDesc(emails))
       /\ lastFetch' = [done |-> TRUE, remote |-> emails, clean |-> TRUE,
                        repeated |-> /\ lastFetch.done
                                     /\ lastFetch.clean
                                     /\ lastFetch.remote = emails]
  /\ emailLoading' = FALSE
  /\ emailError' = "null"
  /\ fetchResult' = "resolved"
  /\ raced' = [raced EXCEPT !.done = (raced.id # "none")]
  /\ NoteRead
  /\ UNCHANGED marked
  /\ UNCHANGED notEmail

\* A failed fetch that also empties the list.
FetchFailsClearsList ==
  /\ fetching > 0
  /\ fetching' = fetching - 1
  /\ emailList' = <<>>
  /\ emailLoading' = FALSE
  /\ emailError' = "fetch failed"
  /\ fetchResult' = "rejected"
  /\ raced' = NoRace
  /\ UNCHANGED <<everRead, lastFetch, marked>>
  /\ UNCHANGED notEmail

\* The port fails: catch { loading: false, error: message }; throw error
FetchFails ==
  /\ fetching > 0
  /\ fetching' = fetching - 1
  /\ emailLoading' = FALSE
  /\ emailError' = "fetch failed"
  /\ fetchResult' = "rejected"
  /\ raced' = NoRace
  /\ UNCHANGED <<emailList, everRead, lastFetch, marked>>
  /\ UNCHANGED notEmail

\* The ids of a list.
EmailIdsOf(list) == { list[i].id : i \in DOMAIN list }

\* The ids markAsRead() is called with: those of the model and an unknown one.
MarkIds == EmailIds \cup {"m9"}

\* markAsRead(emailId): a local update, no port is called.
MarkAsReadOf(emailId) ==
  /\ emailList' = markAsReadList(emailList, emailId)
  /\ marked' = emailId
  /\ raced' = IF fetching = 1 /\ emailId \in EmailIdsOf(emailList)
                THEN [id |-> emailId, done |-> FALSE] ELSE raced
  /\ lastFetch' = [lastFetch EXCEPT !.clean = FALSE]
  /\ NoteRead
  /\ UNCHANGED <<emailLoading, emailError, fetching, fetchResult>>
  /\ UNCHANGED notEmail

MarkAsRead == \E emailId \in MarkIds : MarkAsReadOf(emailId)

EmailNext ==
  \/ FetchEmails
  \/ FetchSucceeds
  \/ FetchFails
  \/ MarkAsRead

(***************************************************************************)
(* Forwarded-item identifier                                               *)
(***************************************************************************)

\* An address is a sequence of characters, as a failure message is.
At == <<"@">>

Domain2925 == <<"2","9","2","5",".","c","o","m">>

\* String.prototype.indexOf(c); 0 stands for -1 and k + 1 for the index k
indexOf(s, c) ==
  IF \E i \in DOMAIN s : s[i] = c
    THEN CHOOSE i \in DOMAIN s : s[i] = c /\ \A j \in 1..(i - 1) : s[j] # c
    ELSE 0

\* String.prototype.endsWith
endsWith(s, suffix) ==
  /\ Len(suffix) <= Len(s)
  /\ SubSeq(s, Len(s) - Len(suffix) + 1, Len(s)) = suffix

\* String.prototype.startsWith
startsWith(s, prefix) ==
  /\ Len(prefix) <= Len(s)
  /\ SubSeq(s, 1, Len(prefix)) = prefix

\* The characters of [A-Za-z0-9]
Alphanumerics ==
  { "a","b","c","d","e","f","g","h","i","j","k","l","m","n","o","p","q","r","s",
    "t","u","v","w","x","y","z",
    "0","1","2","3","4","5","6","7","8","9" }

\* /^[A-Za-z0-9]+$/.test(username)
IsAlphanumeric(username) ==
  /\ username # <<>>
  /\ \A i \in DOMAIN username : LowerChar(username[i]) \in Alphanumerics

\* validateEmail(email): exactly one "@", the domain is 2925.com as written,
\* the username is a non-empty run of letters and digits.
validateEmail(email) ==
  LET atIndex == indexOf(email, "@") IN
  /\ atIndex # 0
  /\ Cardinality({ i \in DOMAIN email : email[i] = "@" }) = 1
  /\ SubSeq(email, atIndex + 1, Len(email)) = Domain2925
  /\ IsAlphanumeric(SubSeq(email, 1, atIndex - 1))

\* extractBaseUsername(email); <<>> stands for null.  Under the i flag the
\* first group of /^([a-z0-9]+)([A-Z]+)?$/i takes the whole username.
extractBaseUsername(email) ==
  LET atIndex == indexOf(email, "@")
      username == SubSeq(email, 1, atIndex - 1)
  IN IF atIndex = 0 THEN <<>>
     ELSE IF username = <<>> THEN <<>>
     ELSE IF ~IsAlphanumeric(username) THEN <<>>
     ELSE toLowerCase(username)

\* An alias test that accepts the base username itself.
isSubEmailFormatNotStrict(email, baseUsername) ==
  LET emailLower == toLowerCase(email)
      username == SubSeq(emailLower, 1, indexOf(emailLower, "@") - 1)
  IN /\ endsWith(emailLower, At \o Domain2925)
     /\ startsWith(username, toLowerCase(baseUsername))
     /\ Len(username) >= Len(baseUsername)

\* isSubEmailFormat(email, baseUsername)
isSubEmailFormat(email, baseUsername) ==
  LET emailLower == toLowerCase(email)
      username == SubSeq(emailLower, 1, indexOf(emailLower, "@") - 1)
  IN /\ endsWith(emailLower, At \o Domain2925)
     /\ startsWith(username, toLowerCase(baseUsername))
     /\ Len(username) > Len(baseUsername)

\* isEmailForwarded(email, mainEmail), on email.to
isEmailForwarded(to, mainEmail) ==
  LET baseUsername == extractBaseUsername(mainEmail) IN
  IF baseUsername = <<>> THEN FALSE ELSE isSubEmailFormat(to, baseUsername)

\* identifyForwardedEmails(emails, subEmails): the alias-list form.  The
\* origin-alias reference <<>> stands for undefined.
identifyForwardedEmails(emails, subEmails) ==
  LET subEmailAddresses ==
        { toLowerCase(subEmails[j].address) : j \in DOMAIN subEmails }
  IN [i \in DOMAIN emails |->
        IF toLowerCase(emails[i].to) \in subEmailAddresses
          THEN [emails[i] EXCEPT !.isSubEmailForwarded = TRUE,
                                 !.originalSubEmail = emails[i].to]
          ELSE [emails[i] EXCEPT !.isSubEmailForwarded = FALSE,
                                 !.originalSubEmail = <<>>]]

\* `if (subEmails && subEmails.length > 0) emails = identifyForwardedEmails(...)`
ClassifyFetched(emails, given) ==
  IF given.present /\ Len(given.subEmails) > 0
    THEN identifyForwardedEmails(emails, given.subEmails)
    ELSE emails

User == <<"u","s","e","r">>
UserXYZ == <<"u","s","e","r","X","Y","Z">>

\* Destination addresses of the items the remote source returns.
Recipients ==
  { UserXYZ \o At \o Domain2925,
    <<"U","S","E","R","X","Y","Z","@","2","9","2","5",".","C","O","M">>,
    User \o At \o Domain2925 }

\* The aliases fetchEmails() may be given.
AliasXYZ == [address |-> UserXYZ \o At \o Domain2925, status |-> "active"]

AliasABC ==
  [address |-> <<"u","s","e","r","A","B","C">> \o At \o Domain2925,
   status |-> "active"]

\* The argument of fetchEmails(subEmails?): absent, an empty list, or a list
\* of one or two aliases.
SubEmailArguments ==
  { [present |-> FALSE, subEmails |-> <<>>],
    [present |-> TRUE, subEmails |-> <<>>],
    [present |-> TRUE, subEmails |-> <<AliasXYZ>>],
    [present |-> TRUE, subEmails |-> <<AliasABC, AliasXYZ>>] }

\* The items of the remote source, with the forwarded flag the port gave them.
ForwardEmails ==
  [id : EmailIds, timestamp : {1}, isRead : {FALSE}, to : Recipients,
   isSubEmailForwarded : BOOLEAN, originalSubEmail : {<<>>}]

\* What the remote source may answer: at most one item per id.
ForwardRemoteLists ==
  {<<>>} \cup { <<e>> : e \in ForwardEmails }
         \cup { p \in { <<e1, e2>> : e1 \in ForwardEmails, e2 \in ForwardEmails } :
                  p[1].id = "m1" /\ p[2].id = "m2" }

NoGiven == [present |-> FALSE, subEmails |-> <<>>]

\* Local parts and domains of the addresses isEmailForwarded() is applied to.
LocalParts ==
  { <<>>, User, UserXYZ, <<"U","S","E","R","x","y","z">>, <<"u","s","e">>,
    <<"u","s","e","r","1">>, <<"o","t","h","e","r","A","B","C">> }

Domains ==
  { Domain2925, <<"2","9","2","5",".","C","O","M">>, <<"x",".","c","o","m">> }

ClassifiedAddresses ==
  { l \o At \o d : l \in LocalParts, d \in Domains } \cup LocalParts

\* The accounts a session can be opened for are those the login form accepts.
BaseAccounts ==
  { a \in { l \o At \o d : l \in LocalParts \cup { <<"u",".","s">> }, d \in Domains } :
      validateEmail(a) }

NoClassified == [done |-> FALSE, result |-> FALSE]

ForwardIdle ==
  /\ lastGiven = NoGiven
  /\ classifyInput = [to |-> <<>>, mainEmail |-> <<>>]
  /\ classified = NoClassified

\* The identifier is about to be applied to some address and base account.
ClassifyInit ==
  /\ lastGiven = NoGiven
  /\ classifyInput \in [to : ClassifiedAddresses, mainEmail : BaseAccounts]
  /\ classified = NoClassified

\* fetchEmails(subEmails) resolves: classify, sort, merge with the local read
\* state, replace the list.
FetchWithSubEmailsSucceeds ==
  /\ fetching > 0
  /\ fetching' = fetching - 1
  /\ \E emails \in ForwardRemoteLists, given \in SubEmailArguments :
       /\ emailList' = MergeReadState(emailList,
                         SortByTimestampDesc(ClassifyFetched(emails, given)))
       /\ lastFetch' = [done |-> TRUE, remote |-> emails, clean |-> TRUE,
                        repeated |-> /\ lastFetch.done
                                     /\ lastFetch.clean
                                     /\ lastFetch.remote = emails
                                     /\ lastGiven = given]
       /\ lastGiven' = given
  /\ emailLoading' = FALSE
  /\ emailError' = "null"
  /\ fetchResult' = "resolved"
  /\ NoteRead
  /\ raced' = NoRace
  /\ UNCHANGED <<marked, classifyInput, classified>>
  /\ UNCHANGED <<schedVars, retryVars, aliasVars, authVars, genVars, listVars>>

\* isEmailForwarded(email, mainEmail) is called and returns.
IsEmailForwarded ==
  /\ ~classified.done
  /\ classified' = [done |-> TRUE,
                    result |-> isEmailForwarded(classifyInput.to,
                                                classifyInput.mainEmail)]
  /\ UNCHANGED <<lastGiven, classifyInput>>
  /\ UNCHANGED notForward

\* The synchronizer in alias-list mode.
ForwardNext ==
  \/ FetchEmails
  \/ FetchWithSubEmailsSucceeds
  \/ FetchFails

\* The identifier on its own.
ClassifyNext == IsEmailForwarded

(***************************************************************************)
(* Session manager                                                         *)
(***************************************************************************)

\* The sessions the authentication port may answer with or the persistence
\* port may hold; "null" stands for no session.
Sessions == {"session", "session2"}

\* session.expiresAt
expiresAt(s) == IF s = "session" THEN 1 ELSE 2

\* session.email
emailOf(s) == IF s = "session" THEN "user@2925.com" ELSE "user2@2925.com"

Passwords == {"password"}

\* What the consumer calls login() with.
Credentials == [email : {"user@2925.com"}, password : Passwords]

NoLogin == [email |-> "-", password |-> "-", autoLogin |-> FALSE, by |-> "none"]

NoLoaded == [storedSession |-> "null", autoLogin |-> FALSE, savedPassword |-> "null"]

NoLogout == [result |-> "none", portOk |-> TRUE]

NoValidate == [called |-> FALSE, held |-> "null", at |-> 0, result |-> FALSE,
               touched |-> FALSE]

\* A validity test that refuses every session.
isSessionValidNever(s, t) == FALSE

\* isSessionValid(session), at Date.now() = t
isSessionValid(s, t) ==
  IF s = "null" THEN FALSE ELSE t < expiresAt(s)

\* setAuthState({ isAuthenticated, session, loading, error })
SetAuthState(authenticated, s, loading, error) ==
  /\ isAuthenticated' = authenticated
  /\ session' = s
  /\ authLoading' = loading
  /\ authError' = error

\* A clearing that drops the flag and keeps the session.
ClearFlagOnly(error) == SetAuthState(FALSE, session, FALSE, error)

\* setAuthState({ isAuthenticated: false, session: null, loading: false, error })
ClearAuthState(error) == SetAuthState(FALSE, "null", FALSE, error)

\* State after construction: nothing is known yet, loading, and the mount
\* effect's loadSession() is awaiting the persistence port.
SessionInit ==
  /\ authLoading = TRUE
  /\ authError = "null"
  /\ seenSession = "null"
  /\ now = 0
  /\ storedSession \in Sessions \cup {"null"}
  /\ storedPassword \in Passwords \cup {"null"}
  /\ storedAutoLogin \in BOOLEAN
  /\ startup = "loadSession"
  /\ loaded = NoLoaded
  /\ loginPc = "idle"
  /\ loginArgs = NoLogin
  /\ loginSession = "null"
  /\ loginCalls = <<>>
  /\ loginResult = "none"
  /\ logoutPc = "idle"
  /\ logoutResult = NoLogout
  /\ lastValidate = NoValidate
  /\ authCalls = 0
  /\ restored = FALSE
  /\ preferencesSave = "none"

SessionIdle ==
  /\ SessionInit
  /\ storedSession = "null" /\ storedPassword = "null" /\ ~storedAutoLogin

\* Date.now() advances.
ClockTick ==
  /\ now < MaxNow
  /\ now' = now + 1
  /\ UNCHANGED <<isAuthenticated, session, authLoading, authError, seenSession,
                 storedSession, storedPassword, storedAutoLogin, startup,
                 loaded, loginPc, loginArgs, loginSession, loginCalls,
                 loginResult, logoutPc, logoutResult, lastValidate, authCalls,
                 restored, preferencesSave>>
  /\ UNCHANGED notAuth

\* React commits the pending session: validateSession is re-created over it.
AuthRender ==
  /\ seenSession # session
  /\ seenSession' = session
  /\ UNCHANGED <<isAuthenticated, session, authLoading, authError, now,
                 storedSession, storedPassword, storedAutoLogin, startup,
                 loaded, loginPc, loginArgs, loginSession, loginCalls,
                 loginResult, logoutPc, logoutResult, lastValidate, authCalls,
                 restored, preferencesSave>>
  /\ UNCHANGED notAuth

\* validateSession(): the session is the one of the render that created the
\* callback; an expired one clears the state.
ValidateSession ==
  /\ LET valid == isSessionValid(seenSession, now) IN
     /\ IF seenSession = "null" \/ valid
          THEN UNCHANGED <<isAuthenticated, session, authLoading, authError>>
          ELSE ClearAuthState("expired")
     /\ lastValidate' = [called |-> TRUE, held |-> session, at |-> now,
                         result |-> valid,
                         touched |-> ~(seenSession = "null" \/ valid)]
  /\ UNCHANGED <<seenSession, now, storedSession, storedPassword, storedAutoLogin,
                 startup, loaded, loginPc, loginArgs, loginSession,
                 loginCalls, loginResult, logoutPc, logoutResult, authCalls,
                 restored, preferencesSave>>
  /\ UNCHANGED notAuth

\* The ports login() awaits, in the order of its awaits.
LoginPortOrderSecretFirst == <<"login", "savePassword", "saveSession", "savePreferences">>

LoginPortOrder == <<"login", "saveSession", "savePassword", "savePreferences">>

\* The port login() calls after `port` has resolved; "idle" after the last.
NextPort(port) ==
  LET i == CHOOSE k \in DOMAIN LoginPortOrder : LoginPortOrder[k] = port IN
  IF i = Len(LoginPortOrder) THEN "idle" ELSE LoginPortOrder[i + 1]

\* login(credentials, autoLogin), up to the first await: loading, error
\* cleared, the authentication port is called.
Login(credentials, autoLogin, by) ==
  /\ loginPc = "idle"
  /\ authCalls < MaxLogins
  /\ authLoading' = TRUE
  /\ authError' = "null"
  /\ loginPc' = LoginPortOrder[1]
  /\ loginArgs' = [email |-> credentials.email, password |-> credentials.password,
                   autoLogin |-> autoLogin, by |-> by]
  /\ loginCalls' = <<LoginPortOrder[1]>>
  /\ loginResult' = "pending"
  /\ authCalls' = authCalls + 1
  /\ UNCHANGED <<isAuthenticated, session, seenSession, now, storedSession,
                 storedPassword, storedAutoLogin, loginSession, logoutPc,
                 logoutResult, lastValidate, restored, preferencesSave>>

\* The consumer calls login() once the mount effect has finished.
LoginCall ==
  /\ startup = "done"
  /\ \E credentials \in Credentials, autoLogin \in BOOLEAN :
       Login(credentials, autoLogin, "user")
  /\ UNCHANGED <<startup, loaded>>
  /\ UNCHANGED notAuth

\* What the awaiting mount effect does when its login() call settles: its
\* catch clears the error login's catch has just set.
StartupAfterLogin(error) ==
  IF loginArgs.by = "startup"
    THEN /\ startup' = "done"
         /\ authError' = "null"
    ELSE /\ UNCHANGED startup
         /\ authError' = error

\* login's catch: setAuthState({ false, null, false, message }); throw error
LoginRejects ==
  /\ isAuthenticated' = FALSE
  /\ session' = "null"
  /\ authLoading' = FALSE
  /\ StartupAfterLogin("login failed")
  /\ loginPc' = "idle"
  /\ loginResult' = "rejected"
  /\ UNCHANGED <<seenSession, now, storedSession, storedPassword, storedAutoLogin,
                 loaded, loginArgs, loginSession, loginCalls, logoutPc,
                 logoutResult, lastValidate, authCalls, restored>>

\* login's last statement: setAuthState({ true, session, false, null })
LoginResolves ==
  /\ SetAuthState(TRUE, loginSession, FALSE, "null")
  /\ startup' = IF loginArgs.by = "startup" THEN "done" ELSE startup
  /\ loginPc' = "idle"
  /\ loginResult' = "resolved"

\* login() goes on to its next await: the next port is called.
LoginProceeds ==
  /\ loginPc' = NextPort(loginPc)
  /\ loginCalls' = Append(loginCalls, NextPort(loginPc))
  /\ UNCHANGED <<isAuthenticated, session, authLoading, authError, seenSession,
                 now, startup, loaded, loginArgs, loginResult, logoutPc,
                 logoutResult, lastValidate, authCalls, restored, preferencesSave>>

\* auth.login(credentials) settles.
AuthLoginSettles ==
  /\ loginPc = "login"
  /\ \/ /\ \E s \in Sessions : loginSession' = s
        /\ LoginProceeds
        /\ UNCHANGED <<storedSession, storedPassword, storedAutoLogin>>
     \/ /\ LoginRejects
        /\ UNCHANGED preferencesSave
  /\ UNCHANGED notAuth

\* storage.saveSession(session) settles.
SaveSessionSettles ==
  /\ loginPc = "saveSession"
  /\ \/ /\ storedSession' = loginSession
        /\ LoginProceeds
        /\ UNCHANGED <<loginSession, storedPassword, storedAutoLogin>>
     \/ /\ LoginRejects
        /\ UNCHANGED preferencesSave
  /\ UNCHANGED notAuth

\* storage.savePassword(credentials.password) settles.
SavePasswordSettles ==
  /\ loginPc = "savePassword"
  /\ \/ /\ storedPassword' = loginArgs.password
        /\ LoginProceeds
        /\ UNCHANGED <<loginSession, storedSession, storedAutoLogin>>
     \/ /\ LoginRejects
        /\ UNCHANGED preferencesSave
  /\ UNCHANGED notAuth

\* A login whose preference save is not guarded: a rejection reaches the
\* outer catch.
savePreferencesUncaught(ok) == ok

\* The try/catch around storage.savePreferences(...): whether login() goes on
\* after the port has answered ok or not.
savePreferencesCaught(ok) == TRUE

\* storage.savePreferences({ ..., autoLogin }) settles.
SavePreferencesSettles ==
  /\ loginPc = "savePreferences"
  /\ \E ok \in BOOLEAN :
       /\ preferencesSave' = IF ok THEN "saved" ELSE "failed"
       /\ IF savePreferencesCaught(ok)
            THEN /\ storedAutoLogin' =
                      IF ok THEN loginArgs.autoLogin ELSE storedAutoLogin
                 /\ LoginResolves
                 /\ UNCHANGED <<seenSession, now, storedSession, storedPassword,
                                loaded, loginArgs, loginSession, loginCalls,
                                logoutPc, logoutResult, lastValidate, authCalls,
                                restored>>
            ELSE LoginRejects
  /\ UNCHANGED notAuth

\* What logout() leaves when the port has answered, had its catch rethrown.
logoutRethrows(ok) ==
  IF ok THEN [isAuthenticated |-> FALSE, session |-> "null", result |-> "resolved"]
        ELSE [isAuthenticated |-> isAuthenticated, session |-> session,
              result |-> "rejected"]

\* What logout() leaves when the port has answered: the try and the catch
\* set the same state, and the catch does not rethrow.
logoutSettled(ok) ==
  [isAuthenticated |-> FALSE, session |-> "null", result |-> "resolved"]

\* logout(), up to the await: the authentication port's logout is called.
LogoutCall ==
  /\ startup = "done"
  /\ logoutPc = "idle"
  /\ logoutPc' = "logout"
  /\ logoutResult' = [result |-> "pending", portOk |-> TRUE]
  /\ UNCHANGED <<isAuthenticated, session, authLoading, authError, seenSession,
                 now, storedSession, storedPassword, storedAutoLogin, startup,
                 loaded, loginPc, loginArgs, loginSession, loginCalls,
                 loginResult, lastValidate, authCalls, restored, preferencesSave>>
  /\ UNCHANGED notAuth

\* auth.logout() settles either way.
LogoutSettles ==
  /\ logoutPc = "logout"
  /\ logoutPc' = "idle"
  /\ \E ok \in BOOLEAN :
       LET after == logoutSettled(ok) IN
       /\ isAuthenticated' = after.isAuthenticated
       /\ session' = after.session
       /\ logoutResult' = [result |-> after.result, portOk |-> ok]
  /\ authLoading' = FALSE
  /\ authError' = "null"
  /\ UNCHANGED <<seenSession, now, storedSession, storedPassword, storedAutoLogin,
                 startup, loaded, loginPc, loginArgs, loginSession,
                 loginCalls, loginResult, lastValidate, authCalls, restored,
                 preferencesSave>>
  /\ UNCHANGED notAuth

\* The credentials of the mount effect's login() call.
StartupCredentialsTyped(storedSess, savedPassword) ==
  [email |-> "user@2925.com", password |-> savedPassword]

\* { email: storedSession.email, password: savedPassword }
StartupCredentials(storedSess, savedPassword) ==
  [email |-> emailOf(storedSess), password |-> savedPassword]

\* The mount effect ends without a session: every such branch sets
\* { isAuthenticated: false, session: null, loading: false, error: null }.
StartupClears ==
  /\ ClearAuthState("null")
  /\ startup' = "done"

\* storage.loadSession() settles; a failure counts as no session.  A session
\* that is still valid is restored, otherwise the preferences are loaded.
LoadSessionSettles ==
  /\ startup = "loadSession"
  /\ \E ok \in BOOLEAN :
       LET storedSess == IF ok THEN storedSession ELSE "null" IN
       /\ loaded' = [loaded EXCEPT !.storedSession = storedSess]
       /\ IF storedSess # "null" /\ isSessionValid(storedSess, now)
            THEN /\ SetAuthState(TRUE, storedSess, FALSE, "null")
                 /\ startup' = "done"
                 /\ restored' = TRUE
            ELSE /\ startup' = "loadPreferences"
                 /\ UNCHANGED <<isAuthenticated, session, authLoading, authError,
                                restored>>
  /\ UNCHANGED <<seenSession, now, storedSession, storedPassword, storedAutoLogin,
                 loginPc, loginArgs, loginSession, loginCalls, loginResult,
                 logoutPc, logoutResult, lastValidate, authCalls, preferencesSave>>
  /\ UNCHANGED notAuth

\* storage.loadPreferences() settles; a failure counts as no preferences.
\* `if (preferences?.autoLogin && storedSession)`
LoadPreferencesSettles ==
  /\ startup = "loadPreferences"
  /\ \E ok \in BOOLEAN :
       LET autoLogin == ok /\ storedAutoLogin IN
       /\ loaded' = [loaded EXCEPT !.autoLogin = autoLogin]
       /\ IF autoLogin /\ loaded.storedSession # "null"
            THEN /\ startup' = "loadPassword"
                 /\ UNCHANGED <<isAuthenticated, session, authLoading, authError>>
            ELSE StartupClears
  /\ UNCHANGED <<seenSession, now, storedSession, storedPassword, storedAutoLogin,
                 loginPc, loginArgs, loginSession, loginCalls, loginResult,
                 logoutPc, logoutResult, lastValidate, authCalls, restored,
                 preferencesSave>>
  /\ UNCHANGED notAuth

\* storage.loadPassword() settles: with a saved password the effect calls
\* login(); without one, or when the port fails, it clears the state.
LoadPasswordSettles ==
  /\ startup = "loadPassword"
  /\ \E ok \in BOOLEAN :
       LET savedPassword == IF ok THEN storedPassword ELSE "null" IN
       /\ loaded' = [loaded EXCEPT !.savedPassword = savedPassword]
       /\ IF savedPassword # "null"
            THEN /\ Login(StartupCredentials(loaded.storedSession, savedPassword),
                          TRUE, "startup")
                 /\ startup' = "login"
            ELSE /\ StartupClears
                 /\ UNCHANGED <<seenSession, now, storedSession, storedPassword,
                                storedAutoLogin, loginPc, loginArgs, loginSession,
                                loginCalls, loginResult, logoutPc, logoutResult,
                                lastValidate, authCalls, restored, preferencesSave>>
  /\ UNCHANGED notAuth

\* The mount effect, from construction to the end of loadStoredSession().
StartupNext ==
  \/ LoadSessionSettles
  \/ LoadPreferencesSettles
  \/ LoadPasswordSettles
  \/ AuthLoginSettles
  \/ SaveSessionSettles
  \/ SavePasswordSettles
  \/ SavePreferencesSettles
  \/ ClockTick

\* The session manager with its consumers, on a device that holds no cached
\* session.
SessionNext ==
  \/ LoadSessionSettles
  \/ LoadPreferencesSettles
  \/ LoginCall
  \/ AuthLoginSettles
  \/ SaveSessionSettles
  \/ SavePasswordSettles
  \/ SavePreferencesSettles
  \/ LogoutCall
  \/ LogoutSettles
  \/ ValidateSession
  \/ AuthRender
  \/ ClockTick

\* The session manager with its consumers, over everything the persistence
\* port may hold at startup.
SessionAllNext ==
  \/ SessionNext
  \/ LoadPasswordSettles

(***************************************************************************)
(* Alias generator                                                         *)
(***************************************************************************)

\* useState<SubEmail | null>(null): the value that stands for null
NoSubEmail == [address |-> "none", status |-> "none"]

\* State after construction of the hook.
GeneratorInit ==
  /\ generatingSubEmail = NoSubEmail
  /\ seenGenerating = NoSubEmail
  /\ isGenerating = FALSE
  /\ genError = "null"
  /\ sends = <<>>
  /\ statusOf = [address \in Addresses |-> "none"]

\* setGeneratingSubEmail(subEmail), with the history of published statuses
Publish(subEmail) ==
  /\ generatingSubEmail' = subEmail
  /\ statusOf' = [statusOf EXCEPT ![subEmail.address] = subEmail.status]

\* generateSubEmail's catch block, through a closure that saw `seen`:
\* setError(message); setIsGenerating(false);
\* if (generatingSubEmail) setGeneratingSubEmail({...generatingSubEmail, status: 'failed'})
GenerateCatch(seen) ==
  /\ genError' = "message"
  /\ isGenerating' = FALSE
  /\ IF seen # NoSubEmail
       THEN Publish([seen EXCEPT !.status = "failed"])
       ELSE UNCHANGED <<generatingSubEmail, statusOf>>

\* generateSubEmail(config), up to the await of sendEmail; held is whether the
\* callback's session is present, address the address built from a new suffix.
GenerateSubEmail(address, held) ==
  /\ Len(sends) < MaxSends
  /\ statusOf[address] = "none"
  /\ IF ~held
       THEN GenerateCatch(seenGenerating) /\ UNCHANGED sends
       ELSE /\ isGenerating' = TRUE
            /\ genError' = "null"
            /\ Publish([address |-> address, status |-> "creating"])
            /\ sends' = Append(sends, [subEmail |-> [address |-> address,
                                                    status |-> "creating"],
                                       seen |-> seenGenerating])
  /\ UNCHANGED seenGenerating
  /\ UNCHANGED notGen

GenerateCall ==
  \E address \in Addresses, held \in BOOLEAN : GenerateSubEmail(address, held)

\* sendEmail resolves: status 'active' is published and returned.
SendSucceeds ==
  \E i \in DOMAIN sends :
    /\ sends' = RemoveAt(sends, i)
    /\ Publish([sends[i].subEmail EXCEPT !.status = "active"])
    /\ isGenerating' = FALSE
    /\ UNCHANGED <<seenGenerating, genError>>
    /\ UNCHANGED notGen

\* sendEmail rejects: the catch block runs and the error is thrown again.
SendFails ==
  \E i \in DOMAIN sends :
    /\ sends' = RemoveAt(sends, i)
    /\ GenerateCatch(sends[i].seen)
    /\ UNCHANGED seenGenerating
    /\ UNCHANGED notGen

\* React commits the pending state: generateSubEmail is re-created over it.
GeneratorRender ==
  /\ seenGenerating # generatingSubEmail
  /\ seenGenerating' = generatingSubEmail
  /\ UNCHANGED <<generatingSubEmail, isGenerating, genError, sends, statusOf>>
  /\ UNCHANGED notGen

GeneratorNext ==
  \/ GenerateCall
  \/ SendSucceeds
  \/ SendFails
  \/ GeneratorRender

(***************************************************************************)
(* EmailList: the refresh action of the polling scheduler                  *)
(***************************************************************************)

NoGate == [called |-> FALSE, fetched |-> FALSE, held |-> FALSE]

ListIdle == lastGate = NoGate

\* The session manager's variables other than the committed session.
authRest == <<authLoading, authError, now, storedSession, storedPassword,
              storedAutoLogin, startup, loaded, loginPc, loginArgs, loginSession,
              loginCalls, loginResult, logoutPc, logoutResult, lastValidate,
              authCalls, restored, preferencesSave>>

\* What EmailList and the hooks it uses never touch.
notList == <<retryVars, aliasVars, forwardVars, genVars, authRest>>

\* The scheduler's variables a call of refresh() leaves alone.
refreshRest == <<immediate, enabled, mounted, isActive, seenActive, seenRefreshing,
                 timerRef, timerSeen, controlled>>

\* MainApp renders LoginForm while the committed state is unauthenticated:
\* EmailList is not mounted, its scheduler does not exist yet.
ListUnmounted ==
  /\ immediate = TRUE
  /\ enabled = TRUE
  /\ mounted = FALSE
  /\ isActive = TRUE
  /\ seenActive = TRUE
  /\ seenRefreshing = FALSE
  /\ lastError = "null"
  /\ timerRef = "null"
  /\ timerSeen = FALSE
  /\ isRefreshing = FALSE
  /\ inflight = 0
  /\ invocations = 0
  /\ lastStart = "none"
  /\ ticked = FALSE
  /\ manual = FALSE
  /\ controlled = FALSE

\* What the remote source answers to EmailList's fetches.
ListRemoteLists == { <<>>, <<[id |-> "m1", timestamp |-> 1, isRead |-> FALSE]>> }

\* handleRefresh() of a render that saw the session `seen`:
\* if (session?.email) await refreshWithMainEmail(session.email)
\* refreshWithMainEmail is fetchEmails(mainEmail), here up to its await.
HandleRefresh(seen) ==
  /\ lastGate' = [called |-> TRUE, fetched |-> seen # "null",
                  held |-> session # "null"]
  /\ IF seen # "null"
       THEN /\ fetching' = fetching + 1
            /\ emailLoading' = TRUE
            /\ emailError' = "null"
            /\ raced' = NoRace
            /\ UNCHANGED <<emailList, everRead, lastFetch, fetchResult, marked>>
       ELSE UNCHANGED emailVars

\* refresh() of useAutoRefresh with handleRefresh as its refresh action.  A
\* handleRefresh that does not fetch resolves in the same task: finally
\* { setIsRefreshing(false) } has run when the call returns to the event loop.
ListRefreshCall(busy, by, seen) ==
  IF BusyGuard(busy)
    THEN UNCHANGED <<isRefreshing, lastError, inflight, invocations, lastStart,
                     emailVars, lastGate>>
    ELSE /\ HandleRefresh(seen)
         /\ IF seen # "null"
              THEN RefreshCall(busy, by)
              ELSE /\ isRefreshing' = FALSE
                   /\ lastError' = "null"
                   /\ invocations' = Min(invocations + 1, MaxInvocations)
                   /\ lastStart' = by
                   /\ UNCHANGED inflight

\* The interval of EmailList's scheduler fires.
ListTick ==
  /\ timerRef = "set"
  /\ CanCall(timerSeen)
  /\ fetching < MaxFetches
  /\ ListRefreshCall(timerSeen, "tick", seenSession)
  /\ ticked' = TRUE
  /\ UNCHANGED <<refreshRest, manual, seenSession>>
  /\ UNCHANGED notList

\* The refresh button (disabled while isRefreshing): handleManualRefresh
\* awaits handleRefresh(), not the scheduler's refresh().
ListManualRefresh ==
  /\ mounted
  /\ ~seenRefreshing
  /\ fetching < MaxFetches
  /\ HandleRefresh(seenSession)
  /\ manual' = TRUE
  /\ UNCHANGED <<refreshRest, isRefreshing, lastError, inflight, invocations,
                 lastStart, ticked, seenSession>>
  /\ UNCHANGED notList

\* fetchEmails' continuation when the port has answered.
ListMerge ==
  /\ fetching' = fetching - 1
  /\ \E emails \in ListRemoteLists :
       /\ emailList' = MergeReadState(emailList, SortByTimestampDesc(emails))
       /\ lastFetch' = [done |-> TRUE, remote |-> emails, clean |-> TRUE,
                        repeated |-> /\ lastFetch.done
                                     /\ lastFetch.clean
                                     /\ lastFetch.remote = emails]
  /\ emailLoading' = FALSE
  /\ emailError' = "null"
  /\ fetchResult' = "resolved"
  /\ raced' = [raced EXCEPT !.done = (raced.id # "none")]
  /\ NoteRead
  /\ UNCHANGED marked

\* fetchEmails' catch block: { loading: false, error: message }; throw error
ListFetchCatch ==
  /\ fetching' = fetching - 1
  /\ emailLoading' = FALSE
  /\ emailError' = "fetch failed"
  /\ fetchResult' = "rejected"
  /\ raced' = NoRace
  /\ UNCHANGED <<emailList, everRead, lastFetch, marked>>

\* A fetch started through the scheduler resolves: refresh()'s finally runs.
ListFetchSucceeds ==
  /\ inflight > 0
  /\ ListMerge
  /\ inflight' = inflight - 1
  /\ isRefreshing' = IF mounted THEN FALSE ELSE isRefreshing
  /\ UNCHANGED <<refreshRest, lastError, invocations, lastStart, ticked, manual,
                 seenSession, lastGate>>
  /\ UNCHANGED notList

\* A fetch started through the scheduler fails: fetchEmails rethrows,
\* handleRefresh lets it through, refresh() catches it: setLastError(err);
\* console.error(...); finally { setIsRefreshing(false) }
ListFetchFails ==
  /\ inflight > 0
  /\ ListFetchCatch
  /\ inflight' = inflight - 1
  /\ lastError' = IF mounted THEN "err" ELSE lastError
  /\ isRefreshing' = IF mounted THEN FALSE ELSE isRefreshing
  /\ UNCHANGED <<refreshRest, invocations, lastStart, ticked, manual,
                 seenSession, lastGate>>
  /\ UNCHANGED notList

\* A fetch started by the refresh button resolves.
ManualFetchSucceeds ==
  /\ fetching > inflight
  /\ ListMerge
  /\ UNCHANGED <<schedVars, seenSession, lastGate>>
  /\ UNCHANGED notList

\* A fetch started by the refresh button fails: the rejection leaves
\* handleManualRefresh and the click handler uncaught.
ManualFetchFails ==
  /\ fetching > inflight
  /\ ListFetchCatch
  /\ UNCHANGED <<schedVars, seenSession, lastGate>>
  /\ UNCHANGED notList

\* React commits the pending state of the session manager and of the
\* scheduler.  MainApp unmounts EmailList when the committed state is
\* unauthenticated and mounts it when it is authenticated; a mounted
\* EmailList re-creates handleRefresh and re-runs the timer effect when
\* refresh changed.  A new EmailList is mounted only when the invocations of
\* the previous one have settled.
ListCommit ==
  /\ \/ session # seenSession
     \/ mounted /\ isRefreshing # seenRefreshing
  /\ seenSession' = session
  /\ IF session = "null"
       THEN /\ mounted' = FALSE
            /\ timerRef' = "null"
            /\ UNCHANGED <<immediate, enabled, isActive, isRefreshing, lastError,
                           seenActive, seenRefreshing, timerSeen, inflight,
                           invocations, lastStart, ticked, manual, controlled>>
            /\ UNCHANGED <<emailVars, lastGate>>
       ELSE IF ~mounted
         THEN /\ inflight = 0
              /\ fetching < MaxFetches
              /\ mounted' = TRUE
              /\ seenRefreshing' = FALSE
              /\ ListRefreshCall(FALSE, "effect", session)
              /\ timerRef' = "set"
              /\ timerSeen' = FALSE
              /\ UNCHANGED <<immediate, enabled, isActive, seenActive, ticked,
                             manual, controlled>>
         ELSE /\ seenRefreshing' = isRefreshing
              /\ IF isRefreshing # seenRefreshing
                   THEN /\ CanCall(isRefreshing)
                        /\ fetching < MaxFetches
                        /\ ListRefreshCall(isRefreshing, "effect", session)
                        /\ timerRef' = "set"
                        /\ timerSeen' = isRefreshing
                   ELSE UNCHANGED <<isRefreshing, lastError, inflight, invocations,
                                    lastStart, timerRef, timerSeen, emailVars,
                                    lastGate>>
              /\ UNCHANGED <<immediate, enabled, mounted, isActive, seenActive,
                             ticked, manual, controlled>>
  /\ UNCHANGED notList

\* EmailList under MainApp's gate, with the session manager's login and
\* logout settling.
ListNext ==
  \/ LoginSucceeds
  \/ Logout
  \/ ListCommit
  \/ ListTick
  \/ ListManualRefresh
  \/ ListFetchSucceeds
  \/ ListFetchFails
  \/ ManualFetchSucceeds
  \/ ManualFetchFails

(***************************************************************************)
(* Claims about the polling scheduler                                      *)
(***************************************************************************)

\* C1: within one scheduler at most one invocation of the refresh action is
\* in flight at any time, whatever the interleaving of the immediate
\* invocation, ticks, manual refresh() calls and completions.
C1_AtMostOneInFlight == inflight <= 1

\* C6: a scheduler constructed enabled with immediate = true, on which
\* enable/disable/toggle are not called, invokes the refresh action exactly
\* once before the first tick when no manual refresh() is called, and every
\* automatic invocation after that first one is started by a tick.
C6_OnceThenOnlyTicks ==
  (enabled /\ immediate /\ ~controlled) =>
     /\ invocations >= 1
     /\ ((~ticked /\ ~manual) => invocations = 1)
     /\ (lastStart = "effect" => invocations = 1)

\* C7: once disable() has been called (and neither enable() nor toggle() after
\* it), or the owner is torn down, no interval tick invokes the refresh action.
C7_NoTickAfterDisable ==
  [][(Tick /\ (~isActive \/ ~mounted)) => inflight' = inflight]_vars

\* C8: a refresh action that throws is caught: lastError records the error,
\* isRefreshing returns to false and the timer is left as it was; while the
\* committed scheduler is active its timer is armed and a tick through an idle
\* closure starts the action; every start of an invocation resets lastError.
C8_ErrorDoesNotStopTicks ==
  /\ [](mounted /\ seenActive => timerRef = "set")
  /\ [][/\ ((RefreshRejected /\ mounted) =>
             (lastError' = "err" /\ isRefreshing' = FALSE /\ timerRef' = timerRef))
         /\ ((Tick /\ ~timerSeen) => inflight' = inflight + 1)
         /\ (inflight' > inflight => lastError' = "null")]_vars

\* C8 witness: an error is recorded, the scheduler is idle again and the
\* timer is still armed.
C8_Witness ==
  lastError = "err" /\ ~isRefreshing /\ timerRef = "set" /\ inflight = 0 /\ ticked

(***************************************************************************)
(* Claims about the retry coordinator                                      *)
(***************************************************************************)

\* C3: a retryable failure (a kind whose policy has shouldRetry) handled
\* while the context's count is below the kind's maxRetries increments the
\* count by exactly one and schedules one retry; the count it leaves never
\* exceeds maxRetries; handled at maxRetries it resets the count to 0 and
\* schedules nothing.
C3_RetryCounting ==
  LET strategy == getRecoveryStrategy(handled.kind) IN
  (handled.kind # "none" /\ strategy.shouldRetry) =>
     /\ handled.after <= strategy.maxRetries
     /\ IF handled.before < strategy.maxRetries
          THEN handled.after = handled.before + 1 /\ handled.scheduled
          ELSE handled.after = 0 /\ ~handled.scheduled

\* The delays the policy table gives, attempt by attempt.
ExpectedDelays(kind) ==
  CASE kind = "network" -> <<1000, 2000, 4000>>
    [] kind = "server"  -> <<2000, 4000, 8000>>
    [] kind = "storage" -> <<500, 1000>>
    [] OTHER            -> <<>>

\* C9: the retry scheduled for a context whose count before the failure is n
\* is delayed by baseDelayMs * 2^n of the classified kind: 1000, 2000, 4000 ms
\* for network and 2000, 4000, 8000 ms for server failures; every pending
\* timer carries one of these delays.
C9_ExponentialBackoff ==
  /\ handled.scheduled =>
       /\ handled.before + 1 \in DOMAIN ExpectedDelays(handled.kind)
       /\ handled.delay = ExpectedDelays(handled.kind)[handled.before + 1]
  /\ \A i \in DOMAIN timers : timers[i].delay \in {500, 1000, 2000, 4000, 8000}

\* C9 witness: the third consecutive server failure of a context has been
\* handled and its retry is pending with the 8000 ms delay.
C9_Witness ==
  /\ handled.scheduled /\ handled.kind = "server" /\ handled.before = 2
  /\ handled.delay = 8000
  /\ \E i \in DOMAIN timers : timers[i].delay = 8000

\* C10: handle schedules a retry exactly for the kinds whose policy has
\* shouldRetry, while the context's count is below that kind's maxRetries
\* (network 3, server 3, storage 2), and never for auth, validation, unknown.
C10_RetryFollowsPolicy ==
  LET strategy == getRecoveryStrategy(handled.kind) IN
  handled.kind # "none" =>
     (handled.scheduled <=>
        (strategy.shouldRetry /\ handled.before < strategy.maxRetries))

\* C11: a failure of a kind that does not permit retry (auth, validation,
\* unknown) clears the retry count of its context: getRetryCount(context) is
\* 0 once handle has processed it.
C11_NoRetryKindClearsCount ==
  handled.kind \in {"auth", "validation", "unknown"} => handled.after = 0

\* C12: handle never rejects, whatever the kind and whatever the logging port
\* answers; with a logging failure the failure is still classified and the
\* retry decision of the network and server handlers is still taken.
C12_HandleNeverThrows ==
  handled.context # "none" =>
     /\ ~handled.threw
     /\ handled.kind = KindOf[handled.error]
     /\ (handled.kind \in {"network", "server"} =>
           (handled.scheduled <=>
              handled.before < getRecoveryStrategy(handled.kind).maxRetries))

\* C12 witness: a network failure was handled while the logging port
\* rejected, and its retry was scheduled.
C12_Witness ==
  /\ handled.context # "none" /\ ~handled.logged
  /\ handled.kind = "network" /\ handled.scheduled

\* C13: handling an auth-kind failure leaves the session cleared and the
\* session state unauthenticated.
C13_AuthFailureEndsSession ==
  [][\A error \in Messages, context \in Contexts :
       (Handle(error, context, TRUE) /\ KindOf[error] = "auth") =>
          (~isAuthenticated' /\ session' = "null")]_vars

\* C14: every backoff timer that fires invokes the retry action of its
\* failure once.
C14_TimerRunsRetryAction ==
  [][TimerFire => retryRuns' = retryRuns + 1]_vars

\* The kind the keyword table gives to each word of the model's messages.
ExpectedWordKind(w) ==
  CASE w = <<"N","e","t","w","o","r","k">> -> "network"
    [] w = <<"t","i","m","e","o","u","t">> -> "network"
    [] w = <<"A","U","T","H">> -> "auth"
    [] w = <<"U","n","a","u","t","h","o","r","i","z","e","d">> -> "auth"
    [] w = <<"I","M","A","P">> -> "server"
    [] w = <<"5","0","3">> -> "server"
    [] w = <<"i","n","v","a","l","i","d">> -> "validation"
    [] w = <<"d","i","s","k">> -> "storage"
    [] w = <<"Q","u","o","t","a">> -> "storage"
    [] OTHER -> "unknown"

C16_CountsPerContext ==
  [][\A c \in Contexts :
       /\ ((\E error \in CountedMessages : Handle(error, c, TRUE)) =>
             (\A d \in Contexts \ {c} : retryCount'[d] = retryCount[d]))
       /\ (resetRetryCount(c) =>
             /\ retryCount'[c] = 0
             /\ \A d \in Contexts \ {c} : retryCount'[d] = retryCount[d])
       /\ (ReadRetryCount(c) =>
             /\ retryCount' = retryCount
             /\ lastRead'.value = retryCount[c])]_vars

\* C16 witness: one context was read as reset to 0 while the other context
\* keeps a count.
C16_Witness ==
  /\ lastRead.context = "login" /\ lastRead.value = 0
  /\ retryCount["login"] = 0 /\ retryCount["fetchEmails"] = 2
  /\ handled.context = "login" /\ handled.after = 1

(***************************************************************************)
(* Claims about the alias registry                                         *)
(***************************************************************************)

\* C4: when the persistence port's save fails during add, update or delete,
\* the operation fails with its error recorded, and neither its call nor its
\* failure changes the in-memory alias list (nor what the port holds).
C4_FailedSaveChangesNothing ==
  [][/\ SaveFails => (subList' = subList /\ stored' = stored /\ subError' = "save failed")
     /\ (AddCall \/ UpdateCall \/ DeleteCall) => subList' = subList]_vars

\* C4 witness: a save has just failed on a registry that holds an alias.
C4_Witness == subError = "save failed" /\ subList # <<>> /\ saves = <<>>

\* C5: add(alias) with an address equal to one of the in-memory alias list
\* fails (the duplicate error is recorded), starts no save and leaves the
\* list unchanged.
C5_DuplicateAddRefused ==
  [][\A subEmail \in NewSubEmails :
       (AddSubEmail(subEmail) /\ SomeAddress(subList, subEmail.address)) =>
          (saves' = saves /\ subList' = subList /\ subError' = "exists")]_vars

(***************************************************************************)
(* Claims about the remote list synchronizer                               *)
(***************************************************************************)

\* C2: once an item id is read in the visible list, every later visible list
\* that contains that id shows it as read.
C2_ReadNeverRegresses ==
  \A i \in DOMAIN emailList : emailList[i].id \in everRead => emailList[i].isRead

\* timestamps are non-increasing along the list
IsSortedDesc(list) ==
  \A i \in 1..(Len(list) - 1) : list[i].timestamp >= list[i + 1].timestamp

\* The step is the settling of a fetchEmails() call that resolved.
FetchResolves == fetching' = fetching - 1 /\ fetchResult' = "resolved"

C18_FetchSortsDescending ==
  [][FetchResolves => IsSortedDesc(emailList')]_vars

\* C18 witness: the remote source gave the older item first and the visible
\* list shows the newer item first.
C18_Witness ==
  /\ lastFetch.done /\ lastFetch.clean
  /\ Len(lastFetch.remote) = 2
  /\ lastFetch.remote[1].timestamp < lastFetch.remote[2].timestamp
  /\ emailList[1].timestamp > emailList[2].timestamp
  /\ emailList[1].id = lastFetch.remote[2].id

\* C19: when the remote-fetch port fails, fetch() rejects, the visible list
\* is unchanged, the error message is kept and loading returns to false.
C19_FailedFetchKeepsList ==
  [][FetchFails =>
       /\ emailList' = emailList
       /\ emailError' = "fetch failed"
       /\ emailLoading' = FALSE
       /\ fetchResult' = "rejected"]_vars

\* C19 witness: a fetch has failed over a visible list of two items, one read.
C19_Witness ==
  /\ fetchResult = "rejected" /\ emailError = "fetch failed" /\ ~emailLoading
  /\ Len(emailList) = 2
  /\ \E i \in DOMAIN emailList : emailList[i].isRead

\* C20: markAsRead(id) sets the read flag of the item with that id and changes
\* nothing else: a second application changes nothing, an unknown id leaves
\* the list as it is, and no remote port call is started.
C20_MarkAsReadLocalIdempotent ==
  [][\A emailId \in MarkIds :
       MarkAsReadOf(emailId) =>
         /\ DOMAIN emailList' = DOMAIN emailList
         /\ \A i \in DOMAIN emailList :
              IF emailList[i].id = emailId
                THEN /\ emailList'[i].isRead
                     /\ emailList'[i].id = emailList[i].id
                     /\ emailList'[i].timestamp = emailList[i].timestamp
                ELSE emailList'[i] = emailList[i]
         /\ markAsReadList(emailList', emailId) = emailList'
         /\ ((\A i \in DOMAIN emailList : emailList[i].id # emailId) =>
               emailList' = emailList)
         /\ fetching' = fetching
         /\ emailLoading' = emailLoading]_vars

\* C20 witness: m1 was marked read after the remote source reported it unread,
\* and the other item is unread.
C20_Witness ==
  /\ marked = "m1" /\ lastFetch.done /\ ~lastFetch.clean
  /\ \E i \in DOMAIN lastFetch.remote :
       lastFetch.remote[i].id = "m1" /\ ~lastFetch.remote[i].isRead
  /\ \E i \in DOMAIN emailList : emailList[i].id = "m1" /\ emailList[i].isRead
  /\ \E i \in DOMAIN emailList : emailList[i].id = "m2" /\ ~emailList[i].isRead

(***************************************************************************)
(* Claims about the forwarded-item identifier                              *)
(***************************************************************************)

\* C21: in alias-list mode, after any successful fetch an item of the visible
\* list is forwarded exactly when its destination equals, ignoring case, the
\* address of an alias of the list the fetch was given (whatever that list
\* holds, none included), and a forwarded item's origin-alias reference is
\* its destination.
C21_ForwardedIffAliasMatch ==
  [][FetchResolves =>
       \A i \in DOMAIN emailList' :
         LET e == emailList'[i]
             match == \E j \in DOMAIN lastGiven'.subEmails :
                        toLowerCase(lastGiven'.subEmails[j].address) = toLowerCase(e.to)
         IN /\ e.isSubEmailForwarded = match
            /\ (match => e.originalSubEmail = e.to)]_vars

\* The characters of an address before and after its first "@".
LocalPartOf(address) == SubSeq(address, 1, indexOf(address, "@") - 1)
DomainOf(address) == SubSeq(address, indexOf(address, "@") + 1, Len(address))
WellFormed(address) == indexOf(address, "@") # 0 /\ LocalPartOf(address) # <<>>

\* The rule of C22 for an address and a base account.
ExpectedAlias(address, base) ==
  /\ WellFormed(address)
  /\ WellFormed(base)
  /\ toLowerCase(DomainOf(address)) = toLowerCase(DomainOf(base))
  /\ Len(LocalPartOf(address)) > Len(LocalPartOf(base))
  /\ \A i \in DOMAIN LocalPartOf(base) :
       LowerChar(LocalPartOf(address)[i]) = LowerChar(LocalPartOf(base)[i])

C23_AbsentAddressRefused ==
  [][\A address \in Addresses :
       (/\ ~SomeAddress(subList, address)
        /\ \/ DeleteSubEmail(address)
           \/ \E updates \in StatusPartials : UpdateSubEmail(address, updates)) =>
          (saves' = saves /\ subList' = subList /\ subError' = "missing")]_vars

\* C30: no two aliases of the in-memory list have the same address, whatever
\* the sequence of add, update (with any partial) and delete.
C30_AddressesUnique ==
  \A i \in DOMAIN subList : \A j \in DOMAIN subList :
    subList[i].address = subList[j].address => i = j

(***************************************************************************)
(* Claims about the session manager                                        *)
(***************************************************************************)

\* The step is a validateSession() call.
ValidateReturns == lastValidate' # lastValidate

\* C24: when a session is held, validateSession() returns true and leaves the
\* state untouched if and only if the current time is before the session's
\* expiry; otherwise, the time of expiry included, it returns false and
\* leaves the state unauthenticated with no session.
C24_ValidateComparesExpiry ==
  [][(ValidateReturns /\ session # "null") =>
       IF now < expiresAt(session)
         THEN /\ lastValidate'.result
              /\ isAuthenticated' = isAuthenticated /\ session' = session
         ELSE /\ ~lastValidate'.result
              /\ ~isAuthenticated' /\ session' = "null"]_vars

\* The step is the settling of a logout() call.
LogoutReturns == logoutPc = "logout" /\ logoutPc' = "idle"

\* C25: logout() always ends unauthenticated with no session, whether the
\* authentication port's logout succeeds or fails, and never rejects.
C25_LogoutAlwaysClears ==
  [][LogoutReturns =>
       /\ ~isAuthenticated'
       /\ session' = "null"
       /\ logoutResult'.result = "resolved"]_vars

\* C25 witness: after a login that resolved, a logout whose port call failed
\* has resolved and the state is unauthenticated.
C25_Witness ==
  /\ loginResult = "resolved" /\ ~lastValidate.touched
  /\ logoutResult.result = "resolved" /\ ~logoutResult.portOk
  /\ ~isAuthenticated /\ session = "null"

\* C26: at startup, when the persistence port returns a cached session whose
\* expiry is later than the current time, the state becomes authenticated
\* with that session and the authentication port is never called.
C26_StartupRestoresSession ==
  [][/\ (/\ startup = "loadSession"
         /\ loaded'.storedSession # "null"
         /\ now < expiresAt(loaded'.storedSession)) =>
           /\ isAuthenticated'
           /\ session' = loaded'.storedSession
           /\ restored'
     /\ restored' => authCalls' = 0 /\ loginCalls' = <<>>]_vars

\* C26 witness: the cached session that expires at 2 was restored at time 1.
C26_Witness ==
  /\ restored /\ startup = "done" /\ now = 1
  /\ isAuthenticated /\ session = "session2" /\ storedSession = "session2"
  /\ authCalls = 0

\* The mount effect found the preference set, a cached session and a cached
\* credential.
AutoLoginDue ==
  loaded.autoLogin /\ loaded.storedSession # "null" /\ loaded.savedPassword # "null"

\* C27: at startup with no unexpired cached session, authenticate is called
\* exactly once, with the cached session's account and the cached credential,
\* when the auto-login preference is set and a cached session and a cached
\* credential exist, and the state ends authenticated when that login
\* succeeds and unauthenticated when it fails; otherwise authenticate is not
\* called and the state ends unauthenticated.  No error is surfaced.
C27_StartupAutoLogin ==
  (startup = "done" /\ ~restored) =>
    /\ authCalls = (IF AutoLoginDue THEN 1 ELSE 0)
    /\ AutoLoginDue =>
         /\ loginArgs.email = emailOf(loaded.storedSession)
         /\ loginArgs.password = loaded.savedPassword
         /\ loginResult \in {"resolved", "rejected"}
    /\ isAuthenticated = (AutoLoginDue /\ loginResult = "resolved")
    /\ session = (IF isAuthenticated THEN loginSession ELSE "null")
    /\ authError = "null"

\* C27 witness: the expired cached session of user2 led to a silent login
\* for user2 that failed, leaving the state unauthenticated without error.
C27_Witness ==
  /\ startup = "done" /\ ~restored /\ AutoLoginDue
  /\ loaded.storedSession = "session2"
  /\ loginArgs.email = "user2@2925.com"
  /\ loginResult = "rejected"
  /\ ~isAuthenticated /\ authError = "null"

\* The step is the settling of login's savePreferences call, which failed.
PreferencesSaveFails ==
  loginPc = "savePreferences" /\ loginPc' = "idle" /\ preferencesSave' = "failed"

\* C28: when authenticate, persistSession and persistSecret succeed and the
\* save of the auto-login preference fails, login() still resolves and the
\* state is authenticated with the new session.
C28_PreferenceFailureTolerated ==
  [][PreferencesSaveFails =>
       /\ loginResult' = "resolved"
       /\ isAuthenticated'
       /\ session' = loginSession
       /\ authError' = "null"]_vars

\* C28 witness: a login resolved although its preference save failed.
C28_Witness ==
  /\ loginResult = "resolved" /\ preferencesSave = "failed"
  /\ isAuthenticated /\ session = loginSession /\ session # "null"
  /\ storedSession = loginSession /\ storedPassword = loginArgs.password

\* The step is the failure of login's authenticate call.
AuthenticateFails == loginPc = "login" /\ loginPc' = "idle"

\* C29: login() calls the ports in the order authenticate, persistSession,
\* persistSecret, persistPreferences; when authenticate fails no persistence
\* port is called, login() rejects and the state is unauthenticated with no
\* session.
C29_LoginPortOrder ==
  [][/\ loginCalls' # loginCalls =>
          loginCalls' = SubSeq(<<"login", "saveSession", "savePassword",
                                 "savePreferences">>, 1, Len(loginCalls'))
     /\ AuthenticateFails =>
          /\ loginCalls' = <<"login">>
          /\ loginResult' = "rejected"
          /\ ~isAuthenticated' /\ session' = "null"
          /\ storedSession' = storedSession
          /\ storedPassword' = storedPassword
          /\ storedAutoLogin' = storedAutoLogin]_vars

\* C29 witness: a login has gone through its four port calls and resolved.
C29_Witness ==
  /\ loginResult = "resolved"
  /\ Len(loginCalls) = 4
  /\ loginCalls[2] = "saveSession" /\ loginCalls[4] = "savePreferences"

\* C37: in every reachable state of the session manager isAuthenticated is
\* true if and only if a session is held, across login, logout,
\* validateSession and startup, failure paths included.
C37_AuthenticatedIffSession == isAuthenticated <=> (session # "null")

\* C37 witness: a session restored at startup was later found expired by
\* validateSession and cleared.
C37_Witness ==
  /\ restored /\ lastValidate.touched
  /\ ~isAuthenticated /\ session = "null"

\* C31: whenever no alias operation is in flight, the in-memory list is the
\* list of the latest save the port accepted, for every interleaving of
\* add, update and delete, overlapping calls and failing saves included.
C31_ListIsLastSaved ==
  (saves = <<>> /\ loads = 0 /\ lastSaved.done) => subList = lastSaved.list

\* C39: two add() calls for distinct new addresses that overlap and whose
\* saves both succeed leave both aliases in the in-memory list and in the
\* persisted list once both have completed.
C39_OverlappingAddsKept ==
  (saves = <<>> /\ loads = 0) =>
    \A address \in overlapAdds :
      SomeAddress(subList, address) /\ SomeAddress(stored, address)

\* A loadFromStorage() call settles.
LoadReturns == loads' = loads - 1

\* C40: a load of the alias list that fails leaves the in-memory list as it
\* was: a settling load yields what the port holds or changes nothing, and
\* never puts an empty list in place of a non-empty registry.
C40_FailedLoadKeepsList ==
  [][LoadReturns => (subList' = stored \/ subList' = subList)]_vars

(***************************************************************************)
(* Claims about the polling scheduler, continued                           *)
(***************************************************************************)

\* refresh() passes its guard and invokes the refresh action.
RefreshInvoked == inflight' = inflight + 1

\* C36: if the scheduler stays enabled and every invocation of the refresh
\* action eventually resolves or throws, the refresh action is invoked
\* infinitely often.
C36_InvokedInfinitelyOften == []<><<RefreshInvoked>>_vars

\* C36 witness: an invocation started by the interval is awaited after
\* earlier invocations have settled.
C36_Witness ==
  /\ isActive /\ timerRef = "set"
  /\ invocations = MaxInvocations /\ inflight = 1 /\ lastStart = "tick"

(***************************************************************************)
(* Claims about the retry coordinator, continued                           *)
(***************************************************************************)

\* C35: after teardown of the context that owns a pending backoff retry,
\* the callback of that retry never fires: no timer runs once the owner is
\* unmounted.
C35_NoRetryAfterTeardown ==
  [][~mounted => Len(timers') >= Len(timers)]_vars

(***************************************************************************)
(* Claims about the remote list synchronizer, continued                    *)
(***************************************************************************)

FetchRejects == fetching' = fetching - 1 /\ fetchResult' = "rejected"

\* C33: every failure of a fetch started by the scheduler (tick or manual
\* refresh) is handed to the retry coordinator: handle is invoked once for
\* that failed refresh, with its context label.
C33_FailureIsHandled ==
  [][FetchRejects => (handled' # handled /\ handled'.context = "fetchEmails")]_vars

\* C34: no remote fetch is started by the scheduler while the session state
\* is unauthenticated: a refresh fetches only when a session is held.
C34_FetchOnlyWithSession == lastGate.fetched => lastGate.held

(***************************************************************************)
(* Claims about the alias generator                                        *)
(***************************************************************************)

\* C32: the status of an alias only changes from creating to active or from
\* creating to failed, across any sequence of creation attempts: an alias
\* that is active or failed never changes status again.
C32_StatusOnlyLeavesCreating ==
  [][\A address \in Addresses :
       statusOf'[address] # statusOf[address] =>
         \/ statusOf[address] = "none" /\ statusOf'[address] = "creating"
         \/ /\ statusOf[address] = "creating"
            /\ statusOf'[address] \in {"active", "failed"}]_vars

(***************************************************************************)
(* Specifications, one per component                                       *)
(***************************************************************************)
SchedIdle == SchedInit /\ ~enabled /\ ~immediate

InitSched ==
  SchedInit /\ RetryInit /\ AliasIdle /\ EmailInit /\ ForwardIdle /\ SessionIdle /\ GeneratorInit
  /\ ListIdle

InitRetry ==
  SchedIdle /\ RetryInit /\ AliasIdle /\ EmailInit /\ ForwardIdle /\ SessionIdle /\ GeneratorInit
  /\ ListIdle

InitAlias ==
  SchedIdle /\ RetryInit /\ AliasInit /\ EmailInit /\ ForwardIdle /\ SessionIdle /\ GeneratorInit
  /\ ListIdle

InitEmail ==
  SchedIdle /\ RetryInit /\ AliasIdle /\ EmailInit /\ ForwardIdle /\ SessionIdle /\ GeneratorInit
  /\ ListIdle

InitClassify ==
  SchedIdle /\ RetryInit /\ AliasIdle /\ EmailInit /\ ClassifyInit /\ SessionIdle /\ GeneratorInit
  /\ ListIdle

InitSessionIdle ==
  SchedIdle /\ RetryInit /\ AliasIdle /\ EmailInit /\ ForwardIdle /\ SessionIdle /\ GeneratorInit
  /\ ListIdle

InitSession ==
  SchedIdle /\ RetryInit /\ AliasIdle /\ EmailInit /\ ForwardIdle /\ SessionInit /\ GeneratorInit
  /\ ListIdle

SpecSched == InitSched /\ [][SchedNext]_vars

SpecRetry == InitRetry /\ [][RetryNext]_vars

SpecAlias == InitAlias /\ [][AliasNext]_vars

SpecEmail == InitEmail /\ [][EmailNext]_vars

SpecRetryLog == InitRetry /\ [][RetryLogNext]_vars

SpecRetryRead == InitRetry /\ [][RetryReadNext]_vars

SpecRetryAuth == InitRetry /\ [][RetryAuthNext]_vars

SpecForward == InitEmail /\ [][ForwardNext]_vars

SpecClassify == InitClassify /\ [][ClassifyNext]_vars

SpecAliasRename == InitAlias /\ [][AliasRenameNext]_vars

SpecStartup == InitSession /\ [][StartupNext]_vars

SpecSession == InitSessionIdle /\ [][SessionNext]_vars

\* Startup on a device that holds a password and the auto-login preference.
InitSessionAll == InitSession /\ storedPassword # "null" /\ storedAutoLogin

SpecSessionAll == InitSessionAll /\ [][SessionAllNext]_vars

\* The scheduler of a consumer that passes enabled: true.
InitSchedEnabled == InitSched /\ enabled

\* The interval keeps firing while it is set, React commits every pending
\* state, and every invocation of the refresh action settles.
SpecSchedLive ==
  /\ InitSchedEnabled
  /\ [][SchedLiveNext]_vars
  /\ WF_vars(Tick)
  /\ WF_vars(Render)
  /\ WF_vars(RefreshSettles)

InitList ==
  ListUnmounted /\ RetryInit /\ AliasIdle /\ EmailInit /\ ForwardIdle /\ SessionIdle
  /\ GeneratorInit /\ ListIdle

SpecList == InitList /\ [][ListNext]_vars

SpecRetryTeardown == InitRetry /\ [][RetryTeardownNext]_vars

SpecGenerator == InitRetry /\ [][GeneratorNext]_vars

SpecAliasLoad == InitAlias /\ [][AliasLoadNext]_vars

InitAliasMounted ==
  SchedIdle /\ RetryInit /\ AliasMounted /\ EmailInit /\ ForwardIdle /\ SessionIdle /\ GeneratorInit
  /\ ListIdle

SpecAliasOverlap == InitAliasMounted /\ [][AliasOverlapNext]_vars

SpecAliasConcurrent == InitAlias /\ [][AliasConcurrentNext]_vars

====
